---- MODULE Spec2Model ----
(***************************************************************************)
(* Model of the mesh loader of opengl_rend_rs (src/src/mesh.rs) together   *)
(* with the parts of the graphics wrapper it drives (src/src/buffer.rs,    *)
(* src/src/vertex_attributes.rs, src/src/opengl.rs).                       *)
(*                                                                         *)
(* The XML reader is modelled as a source of events (StartElement,         *)
(* Characters, EndElement, EndDocument, other events, an error event); the *)
(* graphics device is modelled as a store of objects (buffers, vertex      *)
(* array objects) with the binding state the GL calls of the code read.    *)
(***************************************************************************)
EXTENDS Integers, Sequences, FiniteSets, TLC

\* ------------------------------------------------------------------ bounds

\* Number of StartElement events one document may hold (the root included).
MaxElems == 5

\* Number of render()/render_mesh() calls made on a loaded Mesh.
MaxRenders == 2

\* The deepest a caller nests push() and PushStack scopes.
MaxDepth == 2

\* ------------------------------------------------------------- constants

\* The alignment of every attribute and index stream in its buffer.
Align == 16

\* Largest attribute location Attribute::new accepts.
MaxLocation == 16

\* Largest component count Attribute::new accepts.
MaxSize == 5

NULL_HANDLE == 0

string_path == "mesh.xml"

\* ------------------------------------------------------------- utilities

\* Outcome of a fallible function: Ok(value), Err(MeshError) or a panic.
NoErr == [tag |-> "", n |-> 0, s |-> "", t |-> ""]

MkErr(tag, n, s, t) == [tag |-> tag, n |-> n, s |-> s, t |-> t]

Ok(v) == [kind |-> "Ok", val |-> v, err |-> NoErr]

Fail(e) == [kind |-> "Err", val |-> 0, err |-> e]

Panic(what) == [kind |-> "Panic", val |-> 0, err |-> MkErr(what, 0, "", "")]

\* ------------------------------------------------- numbers written as text

\* The decimal tokens of the modelled documents and the numbers they denote.
NumVal ==
    ("0" :> 0) @@ ("1" :> 1) @@ ("2" :> 2) @@ ("3" :> 3) @@ ("4" :> 4)
    @@ ("5" :> 5) @@ ("6" :> 6) @@ ("7" :> 7) @@ ("8" :> 8) @@ ("9" :> 9)
    @@ ("16" :> 16) @@ ("17" :> 17) @@ ("300" :> 300) @@ ("-1" :> -1)

\* Whether the number v is a value of the integer type: every number of
\* the model is within 32 bits, so a 32-bit type only tests the sign.
FitsUnsigned(v, bits) == v >= 0 /\ (bits >= 32 \/ v < 2 ^ bits)

FitsSigned(v, bits) == bits >= 32 \/ (-(2 ^ (bits - 1)) <= v /\ v < 2 ^ (bits - 1))

\* str::parse::<GLuint>()
ParseGLuint(word) ==
    IF word \in DOMAIN NumVal /\ FitsUnsigned(NumVal[word], 32)
    THEN Ok(NumVal[word])
    ELSE Fail(MkErr("ParseDataError", 0, word, ""))

\* str::parse::<GLint>()
ParseGLint(word) ==
    IF word \in DOMAIN NumVal /\ FitsSigned(NumVal[word], 32)
    THEN Ok(NumVal[word])
    ELSE Fail(MkErr("ParseDataError", 0, word, ""))

\* A bool parse that reads every word but "true" as false.
ParseBool_Lenient(word) == Ok(word = "true")

\* str::parse::<bool>()
ParseBool(word) ==
    IF word = "true" THEN Ok(TRUE)
    ELSE IF word = "false" THEN Ok(FALSE)
    ELSE Fail(MkErr("ParseBoolDataError", 0, word, ""))

\* --------------------------------------------------------------- DataType

\* DataType::size
DataTypeSize(dt) ==
    CASE dt \in {"Byte", "UnsignedByte"} -> 1
      [] dt \in {"Short", "UnsignedShort", "Fixed"} -> 2
      [] dt \in {"Int", "UnsignedInt", "Float"} -> 4
      [] dt = "Double" -> 8

\* DataType::is_floating_point
is_floating_point(dt) == dt \in {"Float", "Double", "Fixed"}

\* IndexSize::size, called by IndicesData::byte_size; opengl.rs declares the
\* enum without the method, so the width of one index is that of the
\* unsigned kind the variant names (u8, u16, u32).
IndexSizeSize(isz) ==
    CASE isz = "UnsignedByte" -> 1
      [] isz = "UnsignedShort" -> 2
      [] isz = "UnsignedInt" -> 4

\* Whether the number v is a value of the scalar kind; a float takes any
\* decimal number.
FitsKind(dt, v) ==
    CASE dt = "Byte" -> FitsSigned(v, 8)
      [] dt = "UnsignedByte" -> FitsUnsigned(v, 8)
      [] dt = "Short" -> FitsSigned(v, 16)
      [] dt = "UnsignedShort" -> FitsUnsigned(v, 16)
      [] dt = "Int" -> FitsSigned(v, 32)
      [] dt = "UnsignedInt" -> FitsUnsigned(v, 32)
      [] OTHER -> TRUE

\* VertexAttributeValues::parse_add / IndicesValues::parse_add on one word.
parse_add(dt, word) ==
    IF word \in DOMAIN NumVal /\ FitsKind(dt, NumVal[word])
    THEN Ok(NumVal[word])
    ELSE Fail(MkErr(IF dt = "Float" THEN "ParseFloatDataError" ELSE "ParseDataError",
                    0, word, ""))

\* The words of `s` parsed in order; the first unparsable word aborts.
RECURSIVE parse_words(_, _, _)
parse_words(dt, words, acc) ==
    IF words = <<>> THEN Ok(acc)
    ELSE LET r == parse_add(dt, Head(words))
         IN IF r.kind = "Ok"
            THEN parse_words(dt, Tail(words), Append(acc, r.val))
            ELSE r

\* parse_attribute_values: VertexAttributeValues::from(data_type) is
\* unimplemented!() for Fixed and Double.
parse_attribute_values(dt, words) ==
    IF dt \in {"Fixed", "Double"} THEN Panic("unimplemented")
    ELSE parse_words(dt, words, <<>>)

\* parse_indices_values
parse_indices_values(isz, words) == parse_words(isz, words, <<>>)

\* get_bytes: the values laid end to end, `size` bytes each; <<v, b>> is
\* byte b of the native encoding of value v.
RECURSIVE get_bytes(_, _)
get_bytes(data, size) ==
    IF data = <<>> THEN <<>>
    ELSE [b \in 1..size |-> <<Head(data), b>>] \o get_bytes(Tail(data), size)

\* ----------------------------------------------------------- the grammar

\* parse_data_type reading every token as `float`.
parse_data_type_DefaultFloat(s) == Ok([dt |-> "Float", normalized |-> FALSE])

\* parse_data_type
parse_data_type(s) ==
    CASE s = "float" -> Ok([dt |-> "Float", normalized |-> FALSE])
      [] s = "half" -> Ok([dt |-> "Fixed", normalized |-> FALSE])
      [] s = "int" -> Ok([dt |-> "Int", normalized |-> FALSE])
      [] s = "uint" -> Ok([dt |-> "UnsignedInt", normalized |-> FALSE])
      [] s = "norm-int" -> Ok([dt |-> "Int", normalized |-> TRUE])
      [] s = "norm-uint" -> Ok([dt |-> "UnsignedInt", normalized |-> TRUE])
      [] s = "short" -> Ok([dt |-> "Short", normalized |-> FALSE])
      [] s = "ushort" -> Ok([dt |-> "UnsignedShort", normalized |-> FALSE])
      [] s = "norm-short" -> Ok([dt |-> "Short", normalized |-> TRUE])
      [] s = "norm-ushort" -> Ok([dt |-> "UnsignedShort", normalized |-> TRUE])
      [] s = "byte" -> Ok([dt |-> "Byte", normalized |-> FALSE])
      [] s = "ubyte" -> Ok([dt |-> "UnsignedByte", normalized |-> FALSE])
      [] s = "norm-byte" -> Ok([dt |-> "Byte", normalized |-> TRUE])
      [] s = "norm-ubyte" -> Ok([dt |-> "UnsignedByte", normalized |-> TRUE])
      [] OTHER -> Fail(MkErr("UnknownDataType", 0, s, ""))

\* parse_index_type
parse_index_type(s) ==
    CASE s = "uint" -> Ok([isz |-> "UnsignedInt", normalized |-> FALSE])
      [] s = "norm-uint" -> Ok([isz |-> "UnsignedInt", normalized |-> TRUE])
      [] s = "ushort" -> Ok([isz |-> "UnsignedShort", normalized |-> FALSE])
      [] s = "norm-ushort" -> Ok([isz |-> "UnsignedShort", normalized |-> TRUE])
      [] s = "ubyte" -> Ok([isz |-> "UnsignedByte", normalized |-> FALSE])
      [] s = "norm-ubyte" -> Ok([isz |-> "UnsignedByte", normalized |-> TRUE])
      [] OTHER -> Fail(MkErr("UnknownDataType", 0, s, ""))

\* parse_primitive
parse_primitive(s) ==
    CASE s = "lines" -> Ok("Lines")
      [] s = "triangles" -> Ok("Triangles")
      [] s = "tri-strip" -> Ok("TriangleStrip")
      [] s = "tri-fan" -> Ok("TriangleFan")
      [] s = "line-strip" -> Ok("LineStrip")
      [] s = "line-loop" -> Ok("LineLoop")
      [] s = "points" -> Ok("Points")
      [] OTHER -> Fail(MkErr("UnknownPrimitive", 0, s, ""))

\* ------------------------------------------------------- XML attributes

\* An element's XML attributes are a sequence of <<name, value>> pairs.
HasAttribute(attributes, name) == \E i \in 1..Len(attributes) : attributes[i][1] = name

\* find_attribute: the value of the first attribute of that name.
find_attribute(attributes, name) ==
    IF HasAttribute(attributes, name)
    THEN LET i == CHOOSE k \in 1..Len(attributes) :
                    /\ attributes[k][1] = name
                    /\ \A j \in 1..(k - 1) : attributes[j][1] # name
         IN Ok(attributes[i][2])
    ELSE Fail(MkErr("NonExistingAttribute", 0, name, ""))

\* find_attribute_parse::<GLuint> (signed = FALSE) / ::<GLint> (signed = TRUE)
find_attribute_parse(attributes, name, signed) ==
    LET f == find_attribute(attributes, name)
    IN IF f.kind # "Ok" THEN f
       ELSE LET p == IF signed THEN ParseGLint(f.val) ELSE ParseGLuint(f.val)
            IN IF p.kind = "Ok" THEN p
               ELSE Fail(MkErr("ParseAttributeDataError", 0, f.val, ""))

\* ------------------------------------------------------------- Attribute

\* Attribute::new
AttributeNew(attributes, string_data) ==
    LET index == find_attribute_parse(attributes, "index", FALSE)
        size == find_attribute_parse(attributes, "size", TRUE)
        type == find_attribute(attributes, "type")
        pdt == parse_data_type(type.val)
        integral == find_attribute(attributes, "integral")
        is_integral == ParseBool(integral.val)
        data == parse_attribute_values(pdt.val.dt, string_data)
    IN IF index.kind # "Ok" THEN index
       ELSE IF index.val > MaxLocation
       THEN Fail(MkErr("InvalidVertexAttributeLocation", index.val, "", ""))
       ELSE IF size.kind # "Ok" THEN size
       ELSE IF ~(0 <= size.val /\ size.val <= MaxSize)
       THEN Fail(MkErr("InvalidVertexAttributeSize", size.val, "", ""))
       ELSE IF type.kind # "Ok" THEN type
       ELSE IF pdt.kind # "Ok" THEN pdt
       ELSE IF integral.kind = "Ok" /\ is_integral.kind # "Ok" THEN is_integral
       ELSE IF integral.kind = "Ok" /\ pdt.val.normalized /\ is_integral.val
       THEN Fail(MkErr("IntegralNormalizedError", 0, "", ""))
       ELSE IF integral.kind = "Ok" /\ is_floating_point(pdt.val.dt) /\ is_integral.val
       THEN Fail(MkErr("IntegralFloatingError", 0, "", ""))
       ELSE IF data.kind # "Ok" THEN data
       ELSE Ok([index |-> index.val,
                vertex_attribute |-> [components |-> size.val,
                                      data_type |-> pdt.val.dt,
                                      normalized |-> pdt.val.normalized],
                data |-> data.val])

\* Attribute::num_elements; a component count of 0 divides by zero.
num_elements(attrib) == Len(attrib.data) \div attrib.vertex_attribute.components

\* Attribute::byte_size
byte_size(attrib) == Len(attrib.data) * DataTypeSize(attrib.vertex_attribute.data_type)

\* ------------------------------------------------------------- named VAOs

\* The loop of process_vao over the accumulated `source` attributes.
RECURSIVE process_sources(_, _)
process_sources(source_attributes, acc) ==
    IF source_attributes = <<>> THEN Ok(acc)
    ELSE LET attrib == Head(source_attributes)
             value == ParseGLuint(attrib[2])
         IN IF attrib[1] # "attrib" THEN Panic("assert_eq")
            ELSE IF value.kind # "Ok" THEN value
            ELSE process_sources(Tail(source_attributes), Append(acc, value.val))

\* process_vao
process_vao(vao_attributes, source_attributes) ==
    LET name == find_attribute(vao_attributes, "name")
        attributes == process_sources(source_attributes, <<>>)
    IN IF name.kind # "Ok" THEN name
       ELSE IF attributes.kind # "Ok" THEN attributes
       ELSE Ok([name |-> name.val, sources |-> attributes.val])

\* ---------------------------------------------------------- IndicesData

\* IndicesData::new
IndicesDataNew(attributes, string_data) ==
    LET data_type == find_attribute(attributes, "type")
        pit == parse_index_type(data_type.val)
        data == parse_indices_values(pit.val.isz, string_data)
    IN IF data_type.kind # "Ok" THEN data_type
       ELSE IF pit.kind # "Ok" THEN pit
       ELSE IF data.kind # "Ok" THEN data
       ELSE Ok([index_size |-> pit.val.isz, data |-> data.val])

\* IndicesData::byte_size
indices_byte_size(indexes) == Len(indexes.data) * IndexSizeSize(indexes.index_size)

\* --------------------------------------------------------- RenderCommand

\* A RenderCommand is a record with every field of both variants; a field
\* the variant does not have holds NoIndices, "" or 0.
NoIndices == [index_size |-> "", data |-> <<>>]

\* primitive_restart: Option<GLuint>
None == [some |-> FALSE, val |-> 0]

Some(v) == [some |-> TRUE, val |-> v]

ArrayCmd(primitive, start, end) ==
    [kind |-> "Array", primitive |-> primitive, start |-> start, end |-> end,
     indexes |-> NoIndices, count |-> 0, index_size |-> "", offset |-> 0,
     primitive_restart |-> None]

IndexedCmd(primitive, primitive_restart, count, index_size, offset, indexes) ==
    [kind |-> "Indexed", primitive |-> primitive, start |-> 0, end |-> 0,
     indexes |-> indexes, count |-> count, index_size |-> index_size,
     offset |-> offset, primitive_restart |-> primitive_restart]

\* An `arrays` constructor that takes any range.
RenderCommandArrays_AnyRange(attributes) ==
    LET cmd == find_attribute(attributes, "cmd")
        primitive == parse_primitive(cmd.val)
        start == find_attribute_parse(attributes, "start", TRUE)
        end == find_attribute_parse(attributes, "end", TRUE)
    IN IF cmd.kind # "Ok" THEN cmd
       ELSE IF primitive.kind # "Ok" THEN primitive
       ELSE IF start.kind # "Ok" THEN start
       ELSE IF end.kind # "Ok" THEN end
       ELSE Ok(ArrayCmd(primitive.val, start.val, end.val))

\* RenderCommand::arrays
RenderCommandArrays(attributes) ==
    LET cmd == find_attribute(attributes, "cmd")
        primitive == parse_primitive(cmd.val)
        start == find_attribute_parse(attributes, "start", TRUE)
        end == find_attribute_parse(attributes, "end", TRUE)
    IN IF cmd.kind # "Ok" THEN cmd
       ELSE IF primitive.kind # "Ok" THEN primitive
       ELSE IF start.kind # "Ok" THEN start
       ELSE IF start.val < 0 THEN Fail(MkErr("InvalidArrayStart", start.val, "", ""))
       ELSE IF end.kind # "Ok" THEN end
       ELSE IF end.val <= 0 THEN Fail(MkErr("InvalidArrayCount", end.val, "", ""))
       ELSE Ok(ArrayCmd(primitive.val, start.val, end.val))

\* RenderCommand::indices
RenderCommandIndices(attributes, indexes) ==
    LET cmd == find_attribute(attributes, "cmd")
        primitive == parse_primitive(cmd.val)
        restart == find_attribute(attributes, "prim-restart")
        parsed == ParseGLuint(restart.val)
        primitive_restart ==
            IF restart.kind = "Ok" /\ parsed.kind = "Ok" THEN Some(parsed.val) ELSE None
    IN IF cmd.kind # "Ok" THEN cmd
       ELSE IF primitive.kind # "Ok" THEN primitive
       ELSE Ok(IndexedCmd(primitive.val, primitive_restart, Len(indexes.data),
                          indexes.index_size, 0, indexes))

\* ------------------------------------------------------ graphics device
\* The state the GL calls of buffer.rs, vertex_attributes.rs and opengl.rs
\* read and write:
\*   next            the next name GenBuffers/GenVertexArrays hands out
\*   kind            name -> "buffer" | "vao", for every generated name
\*   deleted         name -> number of Delete* calls made on it
\*   store           buffer -> its data store (allocated, bytes)
\*   array_binding   the buffer bound to ARRAY_BUFFER
\*   bound_vao       the bound vertex array object
\*   element_binding vao -> the buffer bound to ELEMENT_ARRAY_BUFFER in it
\*   pointers        vao -> the attribute arrays registered in it
\*   calls           the binds, uploads and draws of the running operation

NoStore == [allocated |-> FALSE, bytes |-> <<>>]

\* A byte of a data store that nothing was uploaded to.
Uninit == <<-1, 0>>

GlCall(fn, s1, s2, a, b) == [fn |-> fn, s1 |-> s1, s2 |-> s2, a |-> a, b |-> b]

GlInit ==
    [next |-> 1,
     kind |-> (NULL_HANDLE :> "none"),
     deleted |-> (NULL_HANDLE :> 0),
     store |-> (NULL_HANDLE :> NoStore),
     array_binding |-> NULL_HANDLE,
     bound_vao |-> NULL_HANDLE,
     element_binding |-> (NULL_HANDLE :> NULL_HANDLE),
     pointers |-> (NULL_HANDLE :> {}),
     calls |-> <<>>]

\* gl::GenBuffers(1, &mut id): the new name is g.next.
GenBuffers(g) ==
    [g EXCEPT !.next = @ + 1,
              !.kind = (g.next :> "buffer") @@ @,
              !.deleted = (g.next :> 0) @@ @,
              !.store = (g.next :> NoStore) @@ @]

\* gl::GenVertexArrays(1, &mut id): the new name is g.next.
GenVertexArrays(g) ==
    [g EXCEPT !.next = @ + 1,
              !.kind = (g.next :> "vao") @@ @,
              !.deleted = (g.next :> 0) @@ @,
              !.element_binding = (g.next :> NULL_HANDLE) @@ @,
              !.pointers = (g.next :> {}) @@ @]

\* gl::DeleteBuffers(1, &id): a deleted buffer leaves the bindings it is in.
DeleteBuffers(g, id) ==
    [g EXCEPT !.deleted[id] = @ + 1,
              !.array_binding = IF @ = id THEN NULL_HANDLE ELSE @,
              !.element_binding[g.bound_vao] = IF @ = id THEN NULL_HANDLE ELSE @]

\* gl::DeleteVertexArrays(1, &id): a deleted bound VAO is unbound.
DeleteVertexArrays(g, id) ==
    [g EXCEPT !.deleted[id] = @ + 1,
              !.bound_vao = IF @ = id THEN NULL_HANDLE ELSE @]

\* gl::BindVertexArray
BindVertexArray(g, id) ==
    [g EXCEPT !.bound_vao = id,
              !.calls = Append(@, GlCall("BindVertexArray", "", "", id, 0))]

\* gl::BindBuffer: the element array binding is state of the bound VAO.
BindBuffer(g, target, id) ==
    IF target = "ArrayBuffer"
    THEN [g EXCEPT !.array_binding = id,
                   !.calls = Append(@, GlCall("BindBuffer", target, "", id, 0))]
    ELSE [g EXCEPT !.element_binding[g.bound_vao] = id,
                   !.calls = Append(@, GlCall("BindBuffer", target, "", id, 0))]

\* The buffer a call on `target` acts on.
BoundTo(g, target) ==
    IF target = "ArrayBuffer" THEN g.array_binding ELSE g.element_binding[g.bound_vao]

\* gl::BufferData(target, size, null, usage): a new, uninitialised store.
BufferData(g, target, size) ==
    LET b == BoundTo(g, target)
        logged == [g EXCEPT !.calls = Append(@, GlCall("BufferData", target, "", size, 0))]
    IN IF b = NULL_HANDLE \/ size < 0 THEN logged
       ELSE [logged EXCEPT !.store[b] =
                [allocated |-> TRUE, bytes |-> [k \in 1..size |-> Uninit]]]

\* gl::BufferSubData(target, offset, size, data): writes bytes
\* [offset, offset + size) of the store; a range outside the store is
\* GL_INVALID_VALUE and writes nothing.
BufferSubData(g, target, offset, size, data) ==
    LET b == BoundTo(g, target)
        logged == [g EXCEPT !.calls =
                     Append(@, GlCall("BufferSubData", target, "", offset, size))]
    IN IF \/ b = NULL_HANDLE
          \/ ~g.store[b].allocated
          \/ offset < 0 \/ size < 0
          \/ offset + size > Len(g.store[b].bytes)
       THEN logged
       ELSE [logged EXCEPT !.store[b].bytes =
                [k \in 1..Len(g.store[b].bytes) |->
                    IF offset < k /\ k <= offset + size
                    THEN data[k - offset]
                    ELSE g.store[b].bytes[k]]]

\* gl::VertexAttribPointer / gl::VertexAttribIPointer followed by
\* gl::EnableVertexAttribArray: the bound VAO records, for the location, the
\* buffer bound to ARRAY_BUFFER and the byte offset of the array in it.
VertexAttribPointer(g, location, vertex_attribute, stride, offset, integer) ==
    IF g.bound_vao = NULL_HANDLE THEN g
    ELSE [g EXCEPT !.pointers[g.bound_vao] =
            {p \in @ : p.location # location}
            \cup {[location |-> location,
                   buffer |-> g.array_binding,
                   offset |-> offset,
                   stride |-> stride,
                   components |-> vertex_attribute.components,
                   data_type |-> vertex_attribute.data_type,
                   normalized |-> vertex_attribute.normalized,
                   integer |-> integer]}]

\* VertexArrayObject::set_attribute
set_attribute(g, location, vertex_attribute, stride, offset) ==
    VertexAttribPointer(g, location, vertex_attribute, stride, offset,
        ~(is_floating_point(vertex_attribute.data_type) \/ vertex_attribute.normalized))

\* Attribute::setup_attribute_array
setup_attribute_array(g, attrib, offset) ==
    set_attribute(g, attrib.index, attrib.vertex_attribute, 0, offset)

\* OpenGl::draw_arrays
draw_arrays(g, mode, first, count) ==
    [g EXCEPT !.calls = Append(@, GlCall("DrawArrays", mode, "", first, count))]

\* OpenGl::draw_elements
draw_elements(g, mode, count, index_size, offset) ==
    [g EXCEPT !.calls = Append(@, GlCall("DrawElements", mode, index_size, count, offset))]

\* RenderCommand::render
RenderCommandRender(g, cmd) ==
    IF cmd.kind = "Indexed"
    THEN draw_elements(g, cmd.primitive, cmd.count, cmd.index_size, cmd.offset)
    ELSE draw_arrays(g, cmd.primitive, cmd.start, cmd.end)

\* RenderAll replaying the commands last to first.
RECURSIVE RenderAll_Reversed(_, _)
RenderAll_Reversed(g, cmds) ==
    IF cmds = <<>> THEN g
    ELSE RenderCommandRender(RenderAll_Reversed(g, Tail(cmds)), Head(cmds))

\* for cmd in &mut commands { cmd.render(gl) }
RECURSIVE RenderAll(_, _)
RenderAll(g, cmds) ==
    IF cmds = <<>> THEN g
    ELSE RenderAll(RenderCommandRender(g, Head(cmds)), Tail(cmds))

\* ------------------------------------------------------------------ state

\* ----------------------------------------------------------- MatrixStack

\* Mat4, in small: the 2x2 matrices over the integers modulo 2, row by row.
\* Their product is associative and not commutative, as that of Mat4.
IDENTITY == <<1, 0, 0, 1>>

\* Mat4 * Mat4
mat_mul(a, b) ==
    << (a[1] * b[1] + a[2] * b[3]) % 2, (a[1] * b[2] + a[2] * b[4]) % 2,
       (a[3] * b[1] + a[4] * b[3]) % 2, (a[3] * b[2] + a[4] * b[4]) % 2 >>

\* The matrices a caller passes to apply_matrix and set_matrix.
Mats == { <<0, 1, 1, 0>>, <<1, 1, 0, 1>> }

\* MatrixStack::new
MatrixStackNew == [stack |-> <<>>, current_matrix |-> IDENTITY]

\* MatrixStack::push
push(ms) == [ms EXCEPT !.stack = Append(@, ms.current_matrix)]

\* A pop that takes the saved matrix off the stack and does not restore it.
pop_Discard(ms) ==
    IF ms.stack # <<>> THEN [ms EXCEPT !.stack = SubSeq(@, 1, Len(@) - 1)] ELSE ms

\* MatrixStack::pop
pop(ms) ==
    IF ms.stack # <<>>
    THEN [stack |-> SubSeq(ms.stack, 1, Len(ms.stack) - 1),
          current_matrix |-> ms.stack[Len(ms.stack)]]
    ELSE ms

\* MatrixStack::reset
reset(ms) ==
    IF ms.stack # <<>>
    THEN [ms EXCEPT !.current_matrix = ms.stack[Len(ms.stack)]]
    ELSE ms

\* MatrixStack::top
top(ms) == ms.current_matrix

\* MatrixStack::apply_matrix, and rotate, scale, translate, look_at,
\* perspective and orthographic, which multiply by a matrix they build.
apply_matrix(ms, mat) == [ms EXCEPT !.current_matrix = mat_mul(@, mat)]

\* MatrixStack::set_matrix
set_matrix(ms, mat) == [ms EXCEPT !.current_matrix = mat]

\* MatrixStack::set_identity
set_identity(ms) == [ms EXCEPT !.current_matrix = IDENTITY]

VARIABLES
    pc,                     \* where the program is (see the actions)
    result,                 \* what Mesh::new returned: none yet, Ok, Err, Panic
    depth,                  \* parse_xml: depth
    parser_state,           \* parse_xml: parser_state
    attribs,                \* parse_xml: attribs, then parsed_data.attribs
    named_vao_list,         \* parse_xml: named_vao_list
    commands,               \* parse_xml: commands
    open,                   \* the reader: the open elements, outermost first
    n_elems,                \* the reader: StartElement events delivered
    after_chars,            \* the reader: the last event was Characters
    xml_error,              \* the reader reported an error event
    mesh_data,              \* Mesh::new: mesh_data, then Mesh.mesh_data
    attribute_start_locs,   \* Mesh::new: attribute_start_locs
    attribute_buffer_size,  \* Mesh::new: attribute_buffer_size
    index_start_locs,       \* Mesh::new: index_start_locs
    index_buffer_size,      \* Mesh::new: index_buffer_size
    vao_i,                  \* Mesh::new: entries of named_vao_list processed
    gl,                     \* the graphics device
    renders,                \* render()/render_mesh() calls made
    last_op,                \* the last operation run on the Mesh and its argument
    matrix_stack,           \* a MatrixStack: stack and current_matrix
    scopes,                 \* the caller: the push() and PushStack scopes it has open
    stack_op                \* the last MatrixStack operation and top() before it

parser_vars == <<depth, parser_state, attribs, named_vao_list, commands>>

reader_vars == <<open, n_elems, after_chars, xml_error>>

layout_vars == <<attribute_start_locs, attribute_buffer_size,
                 index_start_locs, index_buffer_size, vao_i>>

mesh_vars == <<mesh_data, layout_vars, gl, renders, last_op>>

stack_vars == <<matrix_stack, scopes, stack_op>>

vars == <<pc, result, parser_vars, reader_vars, mesh_vars, stack_vars>>

\* ParserState: a variant and the payload of the variants that carry one.
PState(tag, attributes, sources_attributes) ==
    [tag |-> tag, attributes |-> attributes, sources_attributes |-> sources_attributes]

Initial == PState("Initial", <<>>, <<>>)

JustPassedMeshRoot == PState("JustPassedMeshRoot", <<>>, <<>>)

\* MeshData before MeshData::new() has run.
NoMeshData ==
    [live |-> FALSE, attrib_array_buffer |-> NULL_HANDLE, index_buffer |-> NULL_HANDLE,
     vao |-> NULL_HANDLE, named_vaos |-> {}, commands |-> <<>>]

NoResult == [kind |-> "none", err |-> NoErr]

Init ==
    /\ pc = "open"
    /\ result = NoResult
    /\ depth = 0
    /\ parser_state = Initial
    /\ attribs = <<>>
    /\ named_vao_list = <<>>
    /\ commands = <<>>
    /\ open = <<>>
    /\ n_elems = 0
    /\ after_chars = FALSE
    /\ xml_error = FALSE
    /\ mesh_data = NoMeshData
    /\ attribute_start_locs = <<>>
    /\ attribute_buffer_size = 0
    /\ index_start_locs = <<>>
    /\ index_buffer_size = 0
    /\ vao_i = 0
    /\ gl = GlInit
    /\ renders = 0
    /\ last_op = <<"none", "">>
    /\ matrix_stack = MatrixStackNew
    /\ scopes = <<>>
    /\ stack_op = [op |-> "new", before |-> IDENTITY]

\* --------------------------------------------------- the documents read

ElemNames == {"mesh", "attribute", "vao", "source", "arrays", "indices", "other"}

\* The XML attributes an element of each name may carry.
ElemAttributes(name) ==
    CASE name = "attribute" ->
            { << <<"index", "0">>, <<"size", "2">>, <<"type", "float">> >>,
              << <<"index", "1">>, <<"size", "1">>, <<"type", "ushort">> >> }
      [] name = "vao" -> { << <<"name", "a">> >>, << <<"name", "b">> >> }
      [] name = "source" ->
            { << <<"attrib", "0">> >>, << <<"attrib", "1">> >>, << <<"attrib", "2">> >> }
      [] name = "arrays" ->
            { << <<"cmd", "triangles">>, <<"start", "0">>, <<"end", "3">> >> }
      [] name = "indices" ->
            { << <<"cmd", "tri-fan">>, <<"type", "ushort">> >> }
      [] OTHER -> { <<>> }

\* The text an element may hold, split at white space.
DataWords ==
    { <<"2", "3">>, <<"4", "5", "6", "7">>, <<"1", "2", "3", "4", "5">> }

\* The elements a document may open at a nesting depth: the code reads the
\* XML attributes of the children of the root and of `source` elements only,
\* and no name below depth 2.
StartChoices(d) ==
    CASE d = 1 -> UNION {{<<name, attributes>> :
                            attributes \in IF name = "source" THEN {<<>>}
                                           ELSE ElemAttributes(name)} :
                         name \in ElemNames}
      [] d = 2 -> UNION {{<<name, attributes>> :
                            attributes \in IF name = "source" THEN ElemAttributes(name)
                                           ELSE {<<>>}} :
                         name \in ElemNames}
      [] d = 0 -> {<<name, <<>> >> : name \in ElemNames}
      [] OTHER -> {<<"other", <<>> >>}

\* The XML attributes an element may carry in a document that departs from
\* the format: a required one missing, a `size` outside 1..5, a `type` the
\* loader cannot store or does not know, an `indices` of another width.
FaultyElemAttributes(name) ==
    CASE name = "attribute" ->
            { << <<"index", "0">>, <<"size", "2">>, <<"type", "float">> >>,
              << <<"size", "2">>, <<"type", "float">> >>,
              << <<"index", "0">>, <<"type", "float">> >>,
              << <<"index", "0">>, <<"size", "2">> >>,
              << <<"index", "0">>, <<"size", "0">>, <<"type", "float">> >>,
              << <<"index", "0">>, <<"size", "6">>, <<"type", "float">> >>,
              << <<"index", "0">>, <<"size", "2">>, <<"type", "half">> >>,
              << <<"index", "0">>, <<"size", "2">>, <<"type", "bogus">> >> }
      [] name = "vao" -> { << <<"name", "a">> >>, <<>> }
      [] name = "source" ->
            { << <<"attrib", "0">> >>, <<>>, << <<"index", "0">> >> }
      [] name = "arrays" ->
            { << <<"cmd", "triangles">>, <<"start", "0">>, <<"end", "3">> >>,
              << <<"start", "0">>, <<"end", "3">> >>,
              << <<"cmd", "triangles">>, <<"end", "3">> >>,
              << <<"cmd", "triangles">>, <<"start", "0">> >> }
      [] name = "indices" ->
            { << <<"cmd", "tri-fan">>, <<"type", "ushort">> >>,
              << <<"cmd", "triangles">>, <<"type", "ubyte">> >>,
              << <<"cmd", "tri-fan">> >>,
              << <<"type", "ushort">> >> }
      [] OTHER -> { <<>> }

\* The elements such a document may open at a nesting depth.
FaultyStartChoices(d) ==
    CASE d = 1 -> UNION {{<<name, attributes>> :
                            attributes \in IF name = "source" THEN {<<>>}
                                           ELSE FaultyElemAttributes(name)} :
                         name \in ElemNames}
      [] d = 2 -> {<<"source", attributes>> :
                        attributes \in FaultyElemAttributes("source")}
                    \union {<<"other", <<>> >>}
      [] d = 0 -> {<<"mesh", <<>> >>, <<"other", <<>> >>}
      [] OTHER -> {<<"other", <<>> >>}

\* The XML attributes an element may carry in a document that uses the
\* optional ones, `integral` on an `attribute` and `prim-restart` on an
\* `indices`, and gives an `arrays` a range the loader refuses.
OptionElemAttributes(name) ==
    CASE name = "attribute" ->
            { << <<"index", "0">>, <<"size", "2">>, <<"type", "float">>,
                 <<"integral", "false">> >>,
              << <<"index", "0">>, <<"size", "2">>, <<"type", "float">>,
                 <<"integral", "true">> >>,
              << <<"index", "0">>, <<"size", "2">>, <<"type", "float">>,
                 <<"integral", "yes">> >>,
              << <<"index", "1">>, <<"size", "1">>, <<"type", "ushort">>,
                 <<"integral", "true">> >>,
              << <<"index", "1">>, <<"size", "1">>, <<"type", "norm-ushort">>,
                 <<"integral", "true">> >> }
      [] name = "vao" -> { << <<"name", "a">> >> }
      [] name = "source" -> { << <<"attrib", "0">> >> }
      [] name = "arrays" ->
            { << <<"cmd", "triangles">>, <<"start", "0">>, <<"end", "3">> >>,
              << <<"cmd", "triangles">>, <<"start", "-1">>, <<"end", "3">> >>,
              << <<"cmd", "triangles">>, <<"start", "-1">>, <<"end", "0">> >>,
              << <<"cmd", "triangles">>, <<"start", "0">>, <<"end", "0">> >>,
              << <<"cmd", "triangles">>, <<"start", "0">>, <<"end", "-1">> >> }
      [] name = "indices" ->
            { << <<"cmd", "tri-fan">>, <<"type", "ushort">>, <<"prim-restart", "9">> >>,
              << <<"cmd", "tri-fan">>, <<"type", "ushort">>, <<"prim-restart", "none">> >> }
      [] OTHER -> { <<>> }

\* The elements such a document may open at a nesting depth.
OptionStartChoices(d) ==
    CASE d = 1 -> UNION {{<<name, attributes>> :
                            attributes \in IF name = "source" THEN {<<>>}
                                           ELSE OptionElemAttributes(name)} :
                         name \in ElemNames}
      [] d = 2 -> {<<"source", attributes>> :
                        attributes \in OptionElemAttributes("source")}
                    \union {<<"other", <<>> >>}
      [] d = 0 -> {<<"mesh", <<>> >>, <<"other", <<>> >>}
      [] OTHER -> {<<"other", <<>> >>}

\* ------------------------------------------------------------- parse_xml

\* parse_xml returns Err(e) or panics: Mesh::new returns the same (`?`)
\* before any graphics object exists.
ParseFails(r) ==
    /\ pc' = "returned"
    /\ result' = [kind |-> r.kind, err |-> r.err]

\* File::open(path)?
OpenFile ==
    /\ pc = "open"
    /\ \/ /\ pc' = "parse"
          /\ UNCHANGED result
       \/ ParseFails(Fail(MkErr("IOError", 0, string_path, "")))
    /\ UNCHANGED <<parser_vars, reader_vars, stack_vars, mesh_vars>>

\* StartAtDepth0 taking a root of any name.
StartAtDepth0_AnyRoot(name) ==
    /\ parser_state' = JustPassedMeshRoot
    /\ depth' = depth + 1
    /\ UNCHANGED <<pc, result, attribs, named_vao_list, commands>>

\* XmlEvent::StartElement at depth 0
StartAtDepth0(name) ==
    IF name # "mesh"
    THEN /\ ParseFails(Fail(MkErr("MeshRootNotFound", 0, string_path, "")))
         /\ UNCHANGED parser_vars
    ELSE /\ parser_state' = JustPassedMeshRoot
         /\ depth' = depth + 1
         /\ UNCHANGED <<pc, result, attribs, named_vao_list, commands>>

\* StartAtDepth1 without the test of the first child of the root.
StartAtDepth1_NoCheck(name, attributes) ==
    LET command == RenderCommandArrays(attributes)
    IN IF name = "arrays" /\ command.kind # "Ok"
       THEN /\ ParseFails(command)
            /\ UNCHANGED parser_vars
       ELSE /\ parser_state' =
                 CASE name = "attribute" -> PState("InAttributeTag", attributes, <<>>)
                   [] name = "vao" -> PState("InVaoTag", attributes, <<>>)
                   [] name = "indices" -> PState("InIndicesTag", attributes, <<>>)
                   [] OTHER -> Initial
            /\ commands' = IF name = "arrays"
                           THEN Append(commands, command.val)
                           ELSE commands
            /\ depth' = depth + 1
            /\ UNCHANGED <<pc, result, attribs, named_vao_list>>

\* XmlEvent::StartElement at depth 1
StartAtDepth1(name, attributes) ==
    IF parser_state = JustPassedMeshRoot /\ name # "attribute"
    THEN /\ ParseFails(Fail(MkErr("NoVertexAttributes", 0, string_path, "")))
         /\ UNCHANGED parser_vars
    ELSE LET command == RenderCommandArrays(attributes)
         IN IF name = "arrays" /\ command.kind # "Ok"
            THEN /\ ParseFails(command)
                 /\ UNCHANGED parser_vars
            ELSE /\ parser_state' =
                      CASE name = "attribute" -> PState("InAttributeTag", attributes, <<>>)
                        [] name = "vao" -> PState("InVaoTag", attributes, <<>>)
                        [] name = "indices" -> PState("InIndicesTag", attributes, <<>>)
                        [] OTHER -> Initial
                 /\ commands' = IF name = "arrays"
                                THEN Append(commands, command.val)
                                ELSE commands
                 /\ depth' = depth + 1
                 /\ UNCHANGED <<pc, result, attribs, named_vao_list>>

\* StartAtDepth2 passing over a `source` met outside a `vao`.
StartAtDepth2_NoCheck(name, attributes) ==
    /\ parser_state' =
         IF name = "source" /\ parser_state.tag = "InVaoTag"
         THEN [parser_state EXCEPT !.sources_attributes = @ \o attributes]
         ELSE parser_state
    /\ depth' = depth + 1
    /\ UNCHANGED <<pc, result, attribs, named_vao_list, commands>>

\* XmlEvent::StartElement at depth 2
StartAtDepth2(name, attributes) ==
    IF name = "source" /\ parser_state.tag # "InVaoTag"
    THEN /\ ParseFails(Fail(MkErr("SourceTagNotInVaoTag", 0, string_path, "")))
         /\ UNCHANGED parser_vars
    ELSE /\ parser_state' =
              IF name = "source"
              THEN [parser_state EXCEPT !.sources_attributes = @ \o attributes]
              ELSE parser_state
         /\ depth' = depth + 1
         /\ UNCHANGED <<pc, result, attribs, named_vao_list, commands>>

\* An element the reader has opened: its name, its XML attributes and, for a
\* `vao`, the XML attributes of each `source` child closed so far.
Elem(name, attributes) == [name |-> name, attributes |-> attributes, sources |-> <<>>]

\* The open elements after the innermost one is closed.
CloseTop(elems) ==
    LET innermost == elems[Len(elems)]
        rest == SubSeq(elems, 1, Len(elems) - 1)
    IN IF innermost.name = "source" /\ rest # <<>> /\ rest[Len(rest)].name = "vao"
       THEN [rest EXCEPT ![Len(rest)].sources = Append(@, innermost.attributes)]
       ELSE rest

\* XmlEvent::StartElement { name, attributes }, the element being one of
\* `choices`.
StartElementFrom(choices) ==
    /\ pc = "parse"
    /\ n_elems < MaxElems
    /\ depth > 0 \/ n_elems = 0
    /\ \E element \in choices :
        LET name == element[1]
            attributes == element[2]
        IN /\ CASE depth = 0 -> StartAtDepth0(name)
                [] depth = 1 -> StartAtDepth1(name, attributes)
                [] depth = 2 -> StartAtDepth2(name, attributes)
                [] OTHER -> /\ depth' = depth + 1
                            /\ UNCHANGED <<pc, result, parser_state, attribs,
                                           named_vao_list, commands>>
           /\ open' = Append(open, Elem(name, attributes))
    /\ n_elems' = n_elems + 1
    /\ after_chars' = FALSE
    /\ UNCHANGED <<xml_error, mesh_vars, stack_vars>>

\* StartElement of a document whose elements carry what the format asks for.
StartElement == StartElementFrom(StartChoices(depth))

\* StartElement of a document whose elements may lack a required XML
\* attribute or carry a value the format excludes.
StartFaultyElement == StartElementFrom(FaultyStartChoices(depth))

\* StartElement of a document that uses the optional XML attributes.
StartOptionElement == StartElementFrom(OptionStartChoices(depth))

\* XmlEvent::Characters(data)
Characters ==
    /\ pc = "parse"
    /\ depth > 0
    /\ ~after_chars
    /\ \E data \in DataWords :
        CASE parser_state.tag = "InAttributeTag" ->
                LET attribute == AttributeNew(parser_state.attributes, data)
                IN IF attribute.kind # "Ok"
                   THEN /\ ParseFails(attribute)
                        /\ UNCHANGED parser_vars
                   ELSE /\ attribs' = Append(attribs, attribute.val)
                        /\ parser_state' = Initial
                        /\ UNCHANGED <<pc, result, depth, named_vao_list, commands>>
          [] parser_state.tag = "InIndicesTag" ->
                LET indexes == IndicesDataNew(parser_state.attributes, data)
                    command == RenderCommandIndices(parser_state.attributes, indexes.val)
                IN IF indexes.kind # "Ok"
                   THEN /\ ParseFails(indexes)
                        /\ UNCHANGED parser_vars
                   ELSE IF command.kind # "Ok"
                   THEN /\ ParseFails(command)
                        /\ UNCHANGED parser_vars
                   ELSE /\ commands' = Append(commands, command.val)
                        /\ parser_state' = Initial
                        /\ UNCHANGED <<pc, result, depth, attribs, named_vao_list>>
          [] OTHER -> UNCHANGED <<pc, result, parser_vars>>
    /\ after_chars' = TRUE
    /\ UNCHANGED <<open, n_elems, xml_error, mesh_vars, stack_vars>>

\* closes_vao without the test of the depth.
closes_vao_AnyDepth(d, state) == state.tag = "InVaoTag"

\* `if depth <= 2 { if let ParserState::InVaoTag { .. } = parser_state`
closes_vao(d, state) == d <= 2 /\ state.tag = "InVaoTag"

\* XmlEvent::EndElement
EndElement ==
    /\ pc = "parse"
    /\ depth > 0
    /\ LET vao == process_vao(parser_state.attributes, parser_state.sources_attributes)
       IN IF closes_vao(depth, parser_state)
          THEN IF vao.kind # "Ok"
               THEN /\ ParseFails(vao)
                    /\ UNCHANGED parser_vars
               ELSE /\ named_vao_list' = Append(named_vao_list, vao.val)
                    /\ parser_state' = Initial
                    /\ depth' = depth - 1
                    /\ UNCHANGED <<pc, result, attribs, commands>>
          ELSE /\ depth' = depth - 1
               /\ UNCHANGED <<pc, result, parser_state, attribs, named_vao_list, commands>>
    /\ open' = CloseTop(open)
    /\ after_chars' = FALSE
    /\ UNCHANGED <<n_elems, xml_error, mesh_vars, stack_vars>>

\* Whitespace, Comment, CData, ProcessingInstruction, StartDocument: `_ => {}`
OtherEvent ==
    /\ pc = "parse"
    /\ after_chars
    /\ after_chars' = FALSE
    /\ UNCHANGED <<pc, result, parser_vars, open, n_elems, xml_error, mesh_vars, stack_vars>>

\* Ok(ParsedData { attribs, named_vao_list, commands }): the other locals
\* of parse_xml and the reader end with the call.
ParseReturns ==
    /\ pc' = "new"
    /\ depth' = 0
    /\ parser_state' = Initial
    /\ open' = <<>>
    /\ n_elems' = 0
    /\ after_chars' = FALSE
    /\ UNCHANGED <<result, attribs, named_vao_list, commands, mesh_vars, stack_vars>>

\* XmlEvent::EndDocument => break, then Ok(ParsedData { .. })
EndDocument ==
    /\ pc = "parse"
    /\ depth = 0
    /\ n_elems > 0
    /\ ParseReturns
    /\ UNCHANGED xml_error

\* Err(err) => eprintln!("Error : {err}"): the loop goes on, and the reader,
\* which ends its iteration with the error, yields no further event, so the
\* function goes on to Ok(ParsedData { .. }).
ErrorEvent ==
    /\ pc = "parse"
    /\ xml_error' = TRUE
    /\ ParseReturns

\* -------------------------------------------------------------- Mesh::new

\* Drop of a MeshData: Buffer::drop on both buffers, VertexArrayObject::drop
\* on the default VAO and on every VAO of the name map.
RECURSIVE DeleteAllVaos(_, _)
DeleteAllVaos(g, ids) ==
    IF ids = {} THEN g
    ELSE LET id == CHOOSE x \in ids : \A y \in ids : x <= y
         IN DeleteAllVaos(DeleteVertexArrays(g, id), ids \ {id})

DropMeshData(g, md) ==
    DeleteAllVaos(
        DeleteVertexArrays(
            DeleteBuffers(DeleteBuffers(g, md.attrib_array_buffer), md.index_buffer),
            md.vao),
        {nv[2] : nv \in md.named_vaos})

\* An early `return Err(..)` of Mesh::new, or a panic unwinding out of it,
\* after mesh_data was built: the locals are dropped.
NewFails(g, r) ==
    /\ pc' = "returned"
    /\ result' = [kind |-> r.kind, err |-> r.err]
    /\ gl' = DropMeshData(g, mesh_data)
    /\ mesh_data' = NoMeshData

\* let mut mesh_data = MeshData::new(); mesh_data.commands = parsed_data.commands;
MeshDataNew ==
    /\ pc = "new"
    /\ LET g1 == GenBuffers(gl)
           g2 == GenBuffers(g1)
           g3 == GenVertexArrays(g2)
       IN /\ gl' = g3
          /\ mesh_data' = [live |-> TRUE,
                           attrib_array_buffer |-> gl.next,
                           index_buffer |-> g1.next,
                           vao |-> g2.next,
                           named_vaos |-> {},
                           commands |-> commands]
    /\ pc' = "check"
    /\ last_op' = <<"new", "">>
    /\ UNCHANGED <<result, parser_vars, reader_vars, stack_vars, layout_vars, renders>>

\* check_sizes comparing each attribute with the one before it only from
\* the third attribute on.
check_sizes_FromThird(as, i) ==
    IF \E k \in 3..Len(as) : num_elements(as[k]) # num_elements(as[1])
    THEN Fail(MkErr("VertexAttributesArrayWithDifferentSize",
                    (CHOOSE k \in 3..Len(as) :
                        /\ num_elements(as[k]) # num_elements(as[1])
                        /\ \A j \in 3..(k - 1) :
                              num_elements(as[j]) = num_elements(as[1])) - 1,
                    string_path, ""))
    ELSE Ok(0)

\* The loop "checking if vertex attributes have all same sizes": the outcome
\* at the first position, in order, where num_elements() divides by zero or
\* differs from that of the first attribute.
RECURSIVE check_sizes(_, _)
check_sizes(as, i) ==
    IF i > Len(as) THEN Ok(0)
    ELSE IF as[i].vertex_attribute.components = 0 THEN Panic("divide by zero")
    ELSE IF num_elements(as[i]) # num_elements(as[1])
    THEN Fail(MkErr("VertexAttributesArrayWithDifferentSize", i - 1, string_path, ""))
    ELSE check_sizes(as, i + 1)

CheckSizes ==
    /\ pc = "check"
    /\ LET r == check_sizes(attribs, 1)
       IN IF r.kind # "Ok"
          THEN /\ NewFails(gl, r)
               /\ UNCHANGED <<parser_vars, reader_vars, stack_vars, layout_vars, renders, last_op>>
          ELSE /\ pc' = "layout"
               /\ UNCHANGED <<result, parser_vars, reader_vars, stack_vars, mesh_vars>>

\* RoundUp without the padding: every stream starts where the last one ended.
RoundUp_NoPad(size) == size

\* RoundUp padding a cursor that is already aligned.
RoundUp_AlwaysPad(size) == size + (Align - (size % Align))

\* The cursor rounded up to the alignment, as both layout loops do it.
RoundUp(size) ==
    IF size % Align # 0 THEN size + (Align - (size % Align)) ELSE size

\* attribute_layout without `attribute_buffer_size += attrib.byte_size()`.
RECURSIVE attribute_layout_NoAdvance(_, _, _)
attribute_layout_NoAdvance(as, size, locs) ==
    IF as = <<>> THEN [size |-> size, locs |-> locs]
    ELSE attribute_layout_NoAdvance(Tail(as), size, Append(locs, size))

\* The attribute layout loop: the start of every attribute and the final
\* cursor, from the cursor `size` and the starts `locs` so far.
RECURSIVE attribute_layout(_, _, _)
attribute_layout(as, size, locs) ==
    IF as = <<>> THEN [size |-> size, locs |-> locs]
    ELSE attribute_layout(Tail(as), RoundUp(size) + byte_size(Head(as)),
                          Append(locs, RoundUp(size)))

LayoutAttributes ==
    /\ pc = "layout"
    /\ LET l == attribute_layout(attribs, 0, <<>>)
       IN /\ attribute_buffer_size' = l.size
          /\ attribute_start_locs' = l.locs
    /\ pc' = "upload"
    /\ UNCHANGED <<result, parser_vars, reader_vars, stack_vars, mesh_data,
                   index_start_locs, index_buffer_size, vao_i, gl, renders, last_op>>

\* The upload loop over the attributes from position i on.
RECURSIVE upload_attributes(_, _, _, _)
upload_attributes(g, as, locs, i) ==
    IF i > Len(as) THEN g
    ELSE LET offset == locs[i]
             g1 == BufferSubData(g, "ArrayBuffer", offset, byte_size(as[i]),
                       get_bytes(as[i].data, DataTypeSize(as[i].vertex_attribute.data_type)))
             g2 == setup_attribute_array(g1, as[i], offset)
         IN upload_attributes(g2, as, locs, i + 1)

UploadAttributes ==
    /\ pc = "upload"
    /\ LET g1 == BindVertexArray(gl, mesh_data.vao)
           g2 == BindBuffer(g1, "ArrayBuffer", mesh_data.attrib_array_buffer)
           g3 == BufferData(g2, "ArrayBuffer", attribute_buffer_size)
       IN gl' = upload_attributes(g3, attribs, attribute_start_locs, 1)
    /\ pc' = "vaos"
    /\ UNCHANGED <<result, parser_vars, reader_vars, stack_vars, mesh_data, layout_vars,
                   renders, last_op>>

\* parsed_data.attribs.iter().position(|a| a.index == attrib), counted from 0;
\* -1 for None.
position(as, attrib) ==
    IF \E p \in 1..Len(as) : as[p].index = attrib
    THEN (CHOOSE p \in 1..Len(as) :
            /\ as[p].index = attrib
            /\ \A q \in 1..(p - 1) : as[q].index # attrib) - 1
    ELSE -1

\* The byte offset a named VAO registers the attribute at position `offset` with.
named_vao_offset(locs, offset) == offset

\* fill_vao passing over a location that resolves to no attribute.
RECURSIVE fill_vao_SkipMissing(_, _, _, _)
fill_vao_SkipMissing(g, as, locs, source_list) ==
    IF source_list = <<>> THEN [found |-> TRUE, g |-> g, attrib |-> 0]
    ELSE LET attrib == Head(source_list)
             offset == position(as, attrib)
         IN IF offset < 0 THEN fill_vao_SkipMissing(g, as, locs, Tail(source_list))
            ELSE fill_vao_SkipMissing(
                    setup_attribute_array(g, as[offset + 1], named_vao_offset(locs, offset)),
                    as, locs, Tail(source_list))

\* The loop over one named VAO's source list: the device after it, or the
\* first location that resolves to no attribute.
RECURSIVE fill_vao(_, _, _, _)
fill_vao(g, as, locs, source_list) ==
    IF source_list = <<>> THEN [found |-> TRUE, g |-> g, attrib |-> 0]
    ELSE LET attrib == Head(source_list)
             offset == position(as, attrib)
         IN IF offset < 0 THEN [found |-> FALSE, g |-> g, attrib |-> attrib]
            ELSE fill_vao(setup_attribute_array(g, as[offset + 1],
                                                named_vao_offset(locs, offset)),
                          as, locs, Tail(source_list))

\* insert_vao that forgets the VAO it displaces without dropping it.
insert_vao_Leak(g, named_vaos, name, id) ==
    [g |-> g, named_vaos |-> {x \in named_vaos : x[1] # name} \cup {<<name, id>>}]

\* HashMap::insert: a VAO already under the name is displaced and dropped.
insert_vao(g, named_vaos, name, id) ==
    [g |-> DeleteAllVaos(g, {nv[2] : nv \in {x \in named_vaos : x[1] = name}}),
     named_vaos |-> {x \in named_vaos : x[1] # name} \cup {<<name, id>>}]

\* One iteration of "fill named vaos".
FillNamedVao ==
    /\ pc = "vaos"
    /\ vao_i < Len(named_vao_list)
    /\ LET entry == named_vao_list[vao_i + 1]
           g1 == GenVertexArrays(gl)
           id == gl.next
           g2 == BindVertexArray(g1, id)
           f == fill_vao(g2, attribs, attribute_start_locs, entry.sources)
           ins == insert_vao(f.g, mesh_data.named_vaos, entry.name, id)
       IN IF ~f.found
          THEN /\ NewFails(DeleteVertexArrays(f.g, id),
                           Fail(MkErr("VaoSourceInvalidIndex", f.attrib,
                                      entry.name, string_path)))
               /\ UNCHANGED vao_i
          ELSE /\ gl' = ins.g
               /\ mesh_data' = [mesh_data EXCEPT !.named_vaos = ins.named_vaos]
               /\ vao_i' = vao_i + 1
               /\ UNCHANGED <<pc, result>>
    /\ UNCHANGED <<parser_vars, reader_vars, stack_vars, attribute_start_locs, attribute_buffer_size,
                   index_start_locs, index_buffer_size, renders, last_op>>

\* mesh_data.commands filtered to the index streams of its Indexed commands.
RECURSIVE indices_list(_)
indices_list(cmds) ==
    IF cmds = <<>> THEN <<>>
    ELSE IF Head(cmds).kind = "Indexed"
    THEN <<Head(cmds).indexes>> \o indices_list(Tail(cmds))
    ELSE indices_list(Tail(cmds))

\* The index layout loop ("calculate index buffer size").
RECURSIVE index_layout(_, _, _)
index_layout(list, size, locs) ==
    IF list = <<>> THEN [size |-> size, locs |-> locs]
    ELSE index_layout(Tail(list), RoundUp(size) + indices_byte_size(Head(list)),
                      Append(locs, RoundUp(size)))

\* After the named VAOs: mesh_data.vao.unbind(), then the index layout.
LayoutIndices ==
    /\ pc = "vaos"
    /\ vao_i = Len(named_vao_list)
    /\ gl' = BindVertexArray(gl, NULL_HANDLE)
    /\ LET l == index_layout(indices_list(mesh_data.commands), 0, <<>>)
       IN /\ index_buffer_size' = l.size
          /\ index_start_locs' = l.locs
    /\ pc' = "indices"
    /\ UNCHANGED <<result, parser_vars, reader_vars, stack_vars, mesh_data,
                   attribute_start_locs, attribute_buffer_size, vao_i, renders, last_op>>

\* "fill in data": the upload loop over the index streams from position i on.
RECURSIVE upload_indices(_, _, _, _)
upload_indices(g, list, locs, i) ==
    IF i > Len(list) THEN g
    ELSE upload_indices(
            BufferSubData(g, "IndexBuffer", locs[i], indices_byte_size(list[i]),
                          get_bytes(list[i].data, IndexSizeSize(list[i].index_size))),
            list, locs, i + 1)

\* A back-fill that throws the index data of the commands away.
fill_offsets_DropData(cmds, locs, i) ==
    [k \in 1..Len(cmds) |->
        IF cmds[k].kind = "Indexed" THEN [cmds[k] EXCEPT !.indexes = NoIndices]
        ELSE cmds[k]]

\* fill_offsets giving every Indexed command the start of the first stream.
RECURSIVE fill_offsets_First(_, _, _)
fill_offsets_First(cmds, locs, i) ==
    IF cmds = <<>> THEN <<>>
    ELSE IF Head(cmds).kind = "Indexed"
    THEN <<[Head(cmds) EXCEPT !.offset = locs[1]]>>
         \o fill_offsets_First(Tail(cmds), locs, i + 1)
    ELSE <<Head(cmds)>> \o fill_offsets_First(Tail(cmds), locs, i)

\* "fill in indexed rendering commands": the i-th Indexed command gets
\* index_start_locs[i]; `i` counts the Indexed commands passed so far.
RECURSIVE fill_offsets(_, _, _)
fill_offsets(cmds, locs, i) ==
    IF cmds = <<>> THEN <<>>
    ELSE IF Head(cmds).kind = "Indexed"
    THEN <<[Head(cmds) EXCEPT !.offset = locs[i + 1]]>>
         \o fill_offsets(Tail(cmds), locs, i + 1)
    ELSE <<Head(cmds)>> \o fill_offsets(Tail(cmds), locs, i)

\* for vao in named_vaos.values_mut() { vao.bind(); index_buffer.bind(); }
RECURSIVE bind_index_buffer(_, _, _)
bind_index_buffer(g, order, index_buffer) ==
    IF order = <<>> THEN g
    ELSE bind_index_buffer(
            BindBuffer(BindVertexArray(g, Head(order)), "IndexBuffer", index_buffer),
            Tail(order), index_buffer)

\* The orders a HashMap may hand out the values of `ids` in.
Orders(ids) ==
    {o \in [1..Cardinality(ids) -> ids] : \A i, j \in 1..Cardinality(ids) :
                                              i # j => o[i] # o[j]}

\* "create index buffer", then Ok(Self { mesh_data })
CreateIndexBuffer ==
    /\ pc = "indices"
    /\ IF index_buffer_size > 0
       THEN \E order \in Orders({nv[2] : nv \in mesh_data.named_vaos}) :
              LET g1 == BindVertexArray(gl, mesh_data.vao)
                  g2 == BindBuffer(g1, "IndexBuffer", mesh_data.index_buffer)
                  g3 == BufferData(g2, "IndexBuffer", index_buffer_size)
                  g4 == upload_indices(g3, indices_list(mesh_data.commands),
                                       index_start_locs, 1)
                  g5 == bind_index_buffer(g4, order, mesh_data.index_buffer)
              IN /\ gl' = BindVertexArray(g5, NULL_HANDLE)
                 /\ mesh_data' = [mesh_data EXCEPT !.commands =
                                     fill_offsets(@, index_start_locs, 0)]
       ELSE UNCHANGED <<gl, mesh_data>>
    /\ pc' = "live"
    /\ result' = [kind |-> "Ok", err |-> NoErr]
    /\ UNCHANGED <<parser_vars, reader_vars, stack_vars, layout_vars, renders, last_op>>

\* ------------------------------------------------ render, render_mesh, drop

\* The names render_mesh is called with.
RenderNames == {"a", "c"}

\* Mesh::render
Render ==
    /\ pc = "live"
    /\ renders < MaxRenders
    /\ LET g0 == [gl EXCEPT !.calls = <<>>]
           g1 == BindVertexArray(g0, mesh_data.vao)
           g2 == RenderAll(g1, mesh_data.commands)
       IN gl' = BindVertexArray(g2, NULL_HANDLE)
    /\ renders' = renders + 1
    /\ last_op' = <<"render", "">>
    /\ UNCHANGED <<pc, result, parser_vars, reader_vars, stack_vars, mesh_data, layout_vars>>

\* find_vao falling back to the VAOs of the other names.
find_vao_Fallback(named_vaos, mesh_name) ==
    IF \E nv \in named_vaos : nv[1] = mesh_name
    THEN {nv \in named_vaos : nv[1] = mesh_name}
    ELSE named_vaos

\* named_vaos.iter_mut().find(|(name, _)| **name == mesh_name)
find_vao(named_vaos, mesh_name) == {nv \in named_vaos : nv[1] = mesh_name}

\* Mesh::render_mesh
RenderMesh ==
    /\ pc = "live"
    /\ renders < MaxRenders
    /\ \E mesh_name \in RenderNames :
        /\ LET g0 == [gl EXCEPT !.calls = <<>>]
               found == find_vao(mesh_data.named_vaos, mesh_name)
               vao == (CHOOSE nv \in found : TRUE)[2]
               g1 == BindVertexArray(g0, vao)
               g2 == RenderAll(g1, mesh_data.commands)
           IN gl' = IF found = {} THEN g0 ELSE BindVertexArray(g2, NULL_HANDLE)
        /\ last_op' = <<"render_mesh", mesh_name>>
    /\ renders' = renders + 1
    /\ UNCHANGED <<pc, result, parser_vars, reader_vars, stack_vars, mesh_data, layout_vars>>

\* The Mesh goes out of scope.
DropMesh ==
    /\ pc = "live"
    /\ gl' = DropMeshData([gl EXCEPT !.calls = <<>>], mesh_data)
    /\ mesh_data' = NoMeshData
    /\ pc' = "dropped"
    /\ last_op' = <<"drop", "">>
    /\ UNCHANGED <<result, parser_vars, reader_vars, stack_vars, layout_vars, renders>>

\* ------------------------------------------------------ the specification

Next ==
    \/ OpenFile
    \/ StartElement
    \/ Characters
    \/ EndElement
    \/ OtherEvent
    \/ EndDocument
    \/ ErrorEvent
    \/ MeshDataNew
    \/ CheckSizes
    \/ LayoutAttributes
    \/ UploadAttributes
    \/ FillNamedVao
    \/ LayoutIndices
    \/ CreateIndexBuffer
    \/ Render
    \/ RenderMesh
    \/ DropMesh

Spec == Init /\ [][Next]_vars

\* The same loader reading documents that depart from the format.
NextFaulty ==
    \/ OpenFile
    \/ StartFaultyElement
    \/ Characters
    \/ EndElement
    \/ OtherEvent
    \/ EndDocument
    \/ ErrorEvent
    \/ MeshDataNew
    \/ CheckSizes
    \/ LayoutAttributes
    \/ UploadAttributes
    \/ FillNamedVao
    \/ LayoutIndices
    \/ CreateIndexBuffer
    \/ Render
    \/ RenderMesh
    \/ DropMesh

SpecFaulty == Init /\ [][NextFaulty]_vars

\* The same loader reading documents that use the optional XML attributes.
NextOptions ==
    \/ OpenFile
    \/ StartOptionElement
    \/ Characters
    \/ EndElement
    \/ OtherEvent
    \/ EndDocument
    \/ ErrorEvent
    \/ MeshDataNew
    \/ CheckSizes
    \/ LayoutAttributes
    \/ UploadAttributes
    \/ FillNamedVao
    \/ LayoutIndices
    \/ CreateIndexBuffer
    \/ Render
    \/ RenderMesh
    \/ DropMesh

SpecOptions == Init /\ [][NextOptions]_vars

\* ----------------------------------------------------- MatrixStack in use

\* What every MatrixStack operation leaves alone.
LoaderUnchanged == UNCHANGED <<pc, result, parser_vars, reader_vars, mesh_vars>>

\* The operation `op` has run on the stack.
Ran(op) == stack_op' = [op |-> op, before |-> top(matrix_stack)]

\* The scope the caller opens: the matrix it must get back and the depth of
\* the stack, with whether a PushStack guard holds it.
Scope(guard) ==
    [matrix |-> top(matrix_stack), depth |-> Len(matrix_stack.stack), guard |-> guard]

\* stack.push(), opening a scope the caller closes with pop()
Push ==
    /\ Len(matrix_stack.stack) < MaxDepth
    /\ matrix_stack' = push(matrix_stack)
    /\ scopes' = Append(scopes, Scope(FALSE))
    /\ Ran("push")
    /\ LoaderUnchanged

\* stack.pop(), closing the innermost push() scope, or with no scope open
Pop ==
    /\ scopes # <<>> => ~scopes[Len(scopes)].guard
    /\ matrix_stack' = pop(matrix_stack)
    /\ scopes' = SubSeq(scopes, 1, Len(scopes) - 1)
    /\ Ran("pop")
    /\ LoaderUnchanged

\* PushStack::new(&mut stack)
PushStackNew ==
    /\ Len(matrix_stack.stack) < MaxDepth
    /\ matrix_stack' = push(matrix_stack)
    /\ scopes' = Append(scopes, Scope(TRUE))
    /\ Ran("PushStack::new")
    /\ LoaderUnchanged

\* Drop of the innermost PushStack guard
PushStackDrop ==
    /\ scopes # <<>> /\ scopes[Len(scopes)].guard
    /\ matrix_stack' = pop(matrix_stack)
    /\ scopes' = SubSeq(scopes, 1, Len(scopes) - 1)
    /\ Ran("PushStack::drop")
    /\ LoaderUnchanged

\* stack.reset()
Reset ==
    /\ matrix_stack' = reset(matrix_stack)
    /\ Ran("reset")
    /\ UNCHANGED scopes
    /\ LoaderUnchanged

\* stack.apply_matrix(mat) and the transforms that multiply
ApplyMatrix ==
    /\ \E mat \in Mats : matrix_stack' = apply_matrix(matrix_stack, mat)
    /\ Ran("apply_matrix")
    /\ UNCHANGED scopes
    /\ LoaderUnchanged

\* stack.set_matrix(mat)
SetMatrix ==
    /\ \E mat \in Mats : matrix_stack' = set_matrix(matrix_stack, mat)
    /\ Ran("set_matrix")
    /\ UNCHANGED scopes
    /\ LoaderUnchanged

\* stack.set_identity()
SetIdentity ==
    /\ matrix_stack' = set_identity(matrix_stack)
    /\ Ran("set_identity")
    /\ UNCHANGED scopes
    /\ LoaderUnchanged

\* A caller that works on a MatrixStack in nested scopes.
NextStack ==
    \/ Push
    \/ Pop
    \/ PushStackNew
    \/ PushStackDrop
    \/ Reset
    \/ ApplyMatrix
    \/ SetMatrix
    \/ SetIdentity

SpecStack == Init /\ [][NextStack]_vars

\* ------------------------------------------------------------ properties

\* Mesh::new has passed its layout of the attributes and still holds the mesh.
AttributesLaidOut == mesh_data.live /\ pc \in {"vaos", "indices", "live"}

\* x is the least multiple of the alignment that is >= end.
LeastAligned(x, end) == x % Align = 0 /\ x >= end /\ x - end < Align

\* The byte range [start, start + size) of a buffer.
Disjoint(start1, size1, start2, size2) ==
    start1 + size1 <= start2 \/ start2 + size2 <= start1

\* The bytes [start, start + size) of a data store.
BytesAt(bytes, start, size) == [k \in 1..size |-> bytes[start + k]]

\* C1: every recorded attribute start offset and every recorded index-stream
\* start offset is a multiple of 16.
C1_OffsetsAligned ==
    /\ \A i \in 1..Len(attribute_start_locs) : attribute_start_locs[i] % 16 = 0
    /\ \A i \in 1..Len(index_start_locs) : index_start_locs[i] % 16 = 0

\* C1 witness: a loaded mesh with two attributes and two index streams, the
\* second of each placed after padding.
C1_Witness ==
    /\ pc = "live"
    /\ Len(attribute_start_locs) = 2 /\ attribute_start_locs[2] > 0
    /\ byte_size(attribs[1]) % 16 # 0
    /\ Len(index_start_locs) = 2 /\ index_start_locs[2] > 0

\* C2: the attribute layout is the reference packing: the first attribute
\* starts at 0, each later one at the least multiple of 16 that is >= the end
\* of the one before it (so the cursor never decreases), and the size of the
\* attribute buffer allocation is the end of the last attribute.
C2_ReferencePacking ==
    AttributesLaidOut =>
        LET n == Len(attribs)
            allocated == gl.store[mesh_data.attrib_array_buffer]
        IN /\ Len(attribute_start_locs) = n
           /\ n >= 1 => attribute_start_locs[1] = 0
           /\ \A i \in 2..n :
                LeastAligned(attribute_start_locs[i],
                             attribute_start_locs[i - 1] + byte_size(attribs[i - 1]))
           /\ allocated.allocated
           /\ Len(allocated.bytes) =
                IF n = 0 THEN 0 ELSE attribute_start_locs[n] + byte_size(attribs[n])
           /\ attribute_buffer_size = Len(allocated.bytes)

\* C2 witness: three attributes laid out, one of them ending on a multiple of
\* 16 and one of them not.
C2_Witness ==
    /\ AttributesLaidOut
    /\ Len(attribs) = 3
    /\ \E i, j \in 1..2 :
        /\ (attribute_start_locs[i] + byte_size(attribs[i])) % 16 = 0
        /\ (attribute_start_locs[j] + byte_size(attribs[j])) % 16 # 0
        /\ byte_size(attribs[i]) > 0

\* C3: after a successful Mesh::new the attribute buffer holds, at every
\* attribute's recorded offset, that attribute's bytes; the ranges of the
\* attributes are pairwise disjoint and inside the allocation; and so for the
\* index streams in the index buffer.
C3_BuffersHoldData ==
    pc = "live" =>
        LET abytes == gl.store[mesh_data.attrib_array_buffer].bytes
            ibytes == gl.store[mesh_data.index_buffer].bytes
            list == indices_list(mesh_data.commands)
        IN /\ \A i \in 1..Len(attribs) :
                /\ attribute_start_locs[i] + byte_size(attribs[i]) <= Len(abytes)
                /\ BytesAt(abytes, attribute_start_locs[i], byte_size(attribs[i]))
                     = get_bytes(attribs[i].data,
                                 DataTypeSize(attribs[i].vertex_attribute.data_type))
                /\ \A j \in 1..Len(attribs) :
                     i # j => Disjoint(attribute_start_locs[i], byte_size(attribs[i]),
                                       attribute_start_locs[j], byte_size(attribs[j]))
           /\ \A i \in 1..Len(list) :
                /\ index_start_locs[i] + indices_byte_size(list[i]) <= Len(ibytes)
                /\ BytesAt(ibytes, index_start_locs[i], indices_byte_size(list[i]))
                     = get_bytes(list[i].data, IndexSizeSize(list[i].index_size))
                /\ \A j \in 1..Len(list) :
                     i # j => Disjoint(index_start_locs[i], indices_byte_size(list[i]),
                                       index_start_locs[j], indices_byte_size(list[j]))

\* C3 witness: a loaded mesh with two attributes of different data and two
\* index streams of different data.
C3_Witness ==
    /\ pc = "live"
    /\ Len(attribs) = 2 /\ attribs[1].data # attribs[2].data
    /\ Len(indices_list(mesh_data.commands)) = 2
    /\ indices_list(mesh_data.commands)[1].data # indices_list(mesh_data.commands)[2].data

\* The positions, counted from 1, of the attributes whose num_elements()
\* differs from that of the first attribute.
Mismatches ==
    {i \in 1..Len(attribs) : num_elements(attribs[i]) # num_elements(attribs[1])}

\* parse_xml returned Ok and Mesh::new is past its check of the sizes.
PastCheck == last_op[1] # "none" /\ pc \notin {"new", "check"}

\* No data store was allocated and nothing was uploaded.
NothingAllocated ==
    /\ \A id \in DOMAIN gl.store : ~gl.store[id].allocated
    /\ \A k \in 1..Len(gl.calls) : gl.calls[k].fn \notin {"BufferData", "BufferSubData"}

\* C4: when an attribute's num_elements() differs from the first attribute's,
\* Mesh::new returns VertexAttributesArrayWithDifferentSize(i, path), i the
\* smallest such position, with no allocation and no upload made.
C4_DifferentSizeRejected ==
    (PastCheck /\ Mismatches # {}) =>
        /\ pc = "returned"
        /\ result.kind = "Err"
        /\ result.err.tag = "VertexAttributesArrayWithDifferentSize"
        /\ \A i \in Mismatches : result.err.n <= i - 1
        /\ result.err.n + 1 \in Mismatches
        /\ result.err.s = string_path
        /\ NothingAllocated

\* C4 witness: Mesh::new has returned on three attributes, the second and the
\* third both different in size from the first.
C4_Witness ==
    /\ PastCheck
    /\ pc = "returned"
    /\ Mismatches = {2, 3}

\* C5: every attribute a named VAO registers is registered at the recorded
\* start offset of that attribute in the attribute buffer, the offset the
\* default VAO registers it at.
C5_NamedVaoOffsets ==
    pc = "live" =>
        \A nv \in mesh_data.named_vaos : \A p \in gl.pointers[nv[2]] :
            p.offset = attribute_start_locs[position(attribs, p.location) + 1]

\* The named VAO entries, in order, that reference a location no attribute has.
Unresolved ==
    {k \in 1..Len(named_vao_list) :
        \E j \in 1..Len(named_vao_list[k].sources) :
            \A a \in 1..Len(attribs) : attribs[a].index # named_vao_list[k].sources[j]}

\* The first location of entry k that no attribute has.
FirstUnresolved(k) ==
    LET srcs == named_vao_list[k].sources
        bad(j) == \A a \in 1..Len(attribs) : attribs[a].index # srcs[j]
    IN srcs[CHOOSE j \in 1..Len(srcs) : bad(j) /\ \A i \in 1..(j - 1) : ~bad(i)]

\* Mesh::new is past its loop over the named VAOs, or has returned.
PastNamedVaos == PastCheck /\ pc \notin {"layout", "upload", "vaos"}

\* C6: a named VAO that references a location no attribute has makes
\* Mesh::new fail with VaoSourceInvalidIndex(location, name, path): no Mesh.
C6_UnresolvedSourceRejected ==
    (PastNamedVaos /\ Mismatches = {} /\ Unresolved # {}) =>
        LET k == CHOOSE x \in Unresolved : \A y \in Unresolved : x <= y
        IN /\ pc = "returned"
           /\ result.kind = "Err"
           /\ result.err.tag = "VaoSourceInvalidIndex"
           /\ result.err.n = FirstUnresolved(k)
           /\ result.err.s = named_vao_list[k].name
           /\ result.err.t = string_path
           /\ ~mesh_data.live

\* C6 witness: Mesh::new has returned on a VAO whose first source resolves
\* and whose second does not.
C6_Witness ==
    /\ PastNamedVaos
    /\ Mismatches = {}
    /\ Unresolved = {1}
    /\ Len(named_vao_list[1].sources) = 2
    /\ FirstUnresolved(1) = named_vao_list[1].sources[2]
    /\ pc = "returned"

\* The names GenBuffers and GenVertexArrays have handed out.
Created == DOMAIN gl.kind \ {NULL_HANDLE}

\* The handles a MeshData owns.
Owned(md) ==
    {md.attrib_array_buffer, md.index_buffer, md.vao} \cup {nv[2] : nv \in md.named_vaos}

\* C7: on every exit path of Mesh::new, and after the drop of the Mesh, every
\* buffer and VAO handle created was released exactly once; none is released
\* twice, and none of a live Mesh is released.
C7_HandlesReleasedOnce ==
    /\ \A id \in Created : gl.deleted[id] <= 1
    /\ pc \in {"returned", "dropped"} => \A id \in Created : gl.deleted[id] = 1
    /\ mesh_data.live =>
          \A id \in Created : (gl.deleted[id] = 0) <=> (id \in Owned(mesh_data))

\* C7 witness: Mesh::new has failed on a named-VAO reference, with a VAO
\* under construction, while the name map already held another VAO.
C7_Witness ==
    /\ pc = "returned"
    /\ result.err.tag = "VaoSourceInvalidIndex"
    /\ Cardinality(Created) >= 5

\* C7 witness of the other exit: a Mesh with a displaced VAO was dropped.
C7_WitnessDropped ==
    /\ pc = "dropped"
    /\ Len(named_vao_list) = 2
    /\ named_vao_list[1].name = named_vao_list[2].name

\* C8: when the XML reader reported an error event, Mesh::new does not
\* return Ok.
C8_XmlErrorFails == xml_error => result.kind # "Ok"

\* The number of Indexed commands among the first k parsed commands.
IndexedUpTo(k) == Cardinality({j \in 1..k : commands[j].kind = "Indexed"})

\* The draw call of the k-th command of the document.
ExpectedDraw(k) ==
    IF commands[k].kind = "Array"
    THEN GlCall("DrawArrays", commands[k].primitive, "", commands[k].start, commands[k].end)
    ELSE GlCall("DrawElements", commands[k].primitive, commands[k].indexes.index_size,
                Len(commands[k].indexes.data),
                IF index_buffer_size > 0 THEN index_start_locs[IndexedUpTo(k)] ELSE 0)

\* One draw call per command, in document order, between a bind of `vao`
\* and the unbind.
ReplayOn(vao) ==
    <<GlCall("BindVertexArray", "", "", vao, 0)>>
    \o [k \in 1..Len(commands) |-> ExpectedDraw(k)]
    \o <<GlCall("BindVertexArray", "", "", NULL_HANDLE, 0)>>

\* The commands of the Mesh are the parsed ones, but for the offsets.
CommandDataKept ==
    /\ Len(mesh_data.commands) = Len(commands)
    /\ \A k \in 1..Len(commands) :
          [mesh_data.commands[k] EXCEPT !.offset = 0] = [commands[k] EXCEPT !.offset = 0]

\* C9: after every call of render() the device was asked to bind the default
\* VAO, to draw once per command in document order, and to unbind, whatever
\* the number of calls before it, and the commands hold their data.
C9_RenderReplays ==
    (pc = "live" /\ last_op[1] = "render") =>
        /\ gl.calls = ReplayOn(mesh_data.vao)
        /\ CommandDataKept

\* C9 witness: render() was called a second time on a mesh with an Array and
\* an Indexed command.
C9_Witness ==
    /\ pc = "live" /\ last_op[1] = "render" /\ renders = 2
    /\ \E i, j \in 1..Len(commands) :
          commands[i].kind = "Array" /\ commands[j].kind = "Indexed" /\ i < j

\* C10: render_mesh(name) with a name the map does not hold makes no call on
\* the device and changes nothing in the Mesh; with a name the map holds it
\* binds that VAO, replays the commands as render() does, and unbinds.
C10_RenderMeshReplays ==
    (pc = "live" /\ last_op[1] = "render_mesh") =>
        LET held == {nv \in mesh_data.named_vaos : nv[1] = last_op[2]}
        IN /\ CommandDataKept
           /\ {nv[1] : nv \in mesh_data.named_vaos}
                = {named_vao_list[k].name : k \in 1..Len(named_vao_list)}
           /\ held = {} => gl.calls = <<>> /\ gl.bound_vao = NULL_HANDLE
           /\ held # {} => \E nv \in held :
                              /\ gl.calls = ReplayOn(nv[2])
                              /\ gl.kind[nv[2]] = "vao"
                              /\ gl.deleted[nv[2]] = 0

\* C10 witness: render_mesh was called with a name the map holds, on a mesh
\* with a command to replay.
C10_Witness ==
    /\ pc = "live" /\ last_op = <<"render_mesh", "a">>
    /\ \E nv \in mesh_data.named_vaos : nv[1] = "a"
    /\ Len(commands) >= 1

\* C10 witness of the other case: render_mesh was called with a name the map
\* does not hold, on a mesh with a named VAO and a command.
C10_WitnessAbsent ==
    /\ pc = "live" /\ last_op = <<"render_mesh", "c">>
    /\ mesh_data.named_vaos # {}
    /\ Len(commands) >= 1

\* The index streams of the document, in document order.
Streams == indices_list(commands)

\* The start of the k-th index stream in the reference packing: 0 for the
\* first, else the least multiple of 16 at or after the end of the one before.
RECURSIVE StreamStart(_)
StreamStart(k) ==
    IF k = 1 THEN 0
    ELSE LET end == StreamStart(k - 1) + indices_byte_size(Streams[k - 1])
         IN CHOOSE x \in end..(end + 15) : x % 16 = 0

\* C11: after a successful Mesh::new the k-th Indexed command of the
\* document, whatever Array commands stand around it, has the aligned start
\* of the k-th index stream as its offset, the number of indices of its own
\* stream as its count, and the width of its own stream as its index_size.
C11_IndexedBackFilled ==
    pc = "live" =>
        /\ Len(mesh_data.commands) = Len(commands)
        /\ \A j \in 1..Len(commands) :
              commands[j].kind = "Indexed" =>
                LET k == IndexedUpTo(j)
                    c == mesh_data.commands[j]
                IN /\ c.kind = "Indexed"
                   /\ c.indexes = Streams[k]
                   /\ c.offset = StreamStart(k)
                   /\ c.count = Len(Streams[k].data)
                   /\ c.index_size = Streams[k].index_size

\* C11 witness: a loaded mesh whose commands are Indexed, Array, Indexed, the
\* two index streams of different widths and lengths.
C11_Witness ==
    /\ pc = "live"
    /\ Len(commands) = 3
    /\ commands[1].kind = "Indexed" /\ commands[2].kind = "Array"
    /\ commands[3].kind = "Indexed"
    /\ commands[1].index_size # commands[3].index_size
    /\ commands[1].count # commands[3].count
    /\ mesh_data.commands[3].offset > 0

\* The value of the XML attribute `name` of an element that carries it.
ValueOf(attributes, name) ==
    attributes[CHOOSE i \in 1..Len(attributes) : attributes[i][1] = name][2]

\* The named-VAO entry a `vao` element of the document stands for: its name
\* and the `attrib` of each of its `source` children, in document order.
VaoEntry(elem) ==
    [name |-> ValueOf(elem.attributes, "name"),
     sources |-> [k \in 1..Len(elem.sources) |->
                    NumVal[ValueOf(elem.sources[k], "attrib")]]]

\* The reader delivers the EndElement of the `vao` child of the root.
VaoCloses ==
    /\ pc = "parse" /\ pc' # "new"
    /\ Len(open) = 2 /\ open[2].name = "vao" /\ Len(open') = 1

\* The reader delivers the EndElement of a child of a child of the root.
ChildCloses ==
    /\ pc = "parse" /\ pc' # "new"
    /\ Len(open) = 3 /\ Len(open') = 2

\* C12: the close of a `vao` element appends one entry, holding the name of
\* the element and the `attrib` values of its `source` children in document
\* order, and leaves the parser state Initial; nothing else appends an entry
\* or changes one, and the close of a `source` child changes neither the
\* list nor the parser state.
C12_OneEntryPerVao ==
    [][/\ VaoCloses => /\ named_vao_list' = Append(named_vao_list, VaoEntry(open[2]))
                       /\ parser_state' = Initial
                       /\ pc' = "parse"
       /\ named_vao_list' # named_vao_list => VaoCloses
       /\ ChildCloses => /\ named_vao_list' = named_vao_list
                         /\ parser_state' = parser_state
                         /\ pc' = "parse"]_vars

\* C12 witness: a `vao` with two `source` children of different `attrib` has
\* been closed.
C12_Witness ==
    /\ pc = "parse" /\ Len(open) = 1
    /\ parser_state = Initial
    /\ Len(named_vao_list) = 1
    /\ Len(named_vao_list[1].sources) = 2
    /\ named_vao_list[1].sources[1] # named_vao_list[1].sources[2]

\* C13: a load that succeeds, on a document the reader read to its end
\* without an error, has at least one attribute descriptor.
C13_LoadedHasAttribute ==
    (result.kind = "Ok" /\ ~xml_error) => Len(attribs) >= 1

\* Mesh::new has returned the error `tag` carrying the file path, and holds
\* no graphics object.
FailedWithPath(tag) ==
    /\ pc = "returned"
    /\ result = [kind |-> "Err", err |-> MkErr(tag, 0, string_path, "")]
    /\ mesh_data = NoMeshData
    /\ gl = GlInit

\* The reader has opened the first child of the root and nothing after it.
FirstChildOpened == n_elems = 2 /\ Len(open) = 2

\* C14: when the first child of the root is not named `attribute`, the load
\* has returned NoVertexAttributes with the file path, and so no command and
\* no named VAO.
C14_FirstChildMustBeAttribute ==
    (FirstChildOpened /\ open[2].name # "attribute") => FailedWithPath("NoVertexAttributes")

\* C14 witness: the first child of the root was an `indices` element.
C14_Witness ==
    /\ FirstChildOpened /\ open[2].name = "indices"
    /\ result.err.tag = "NoVertexAttributes"

\* The reader has opened the root and nothing after it.
RootOpened == n_elems = 1 /\ Len(open) = 1

\* C15: when the root is not named `mesh` the load has returned
\* MeshRootNotFound with the file path; when it is, parsing goes on in state
\* JustPassedMeshRoot.
C15_RootMustBeMesh ==
    RootOpened =>
        IF open[1].name # "mesh"
        THEN FailedWithPath("MeshRootNotFound")
        ELSE pc = "parse" /\ parser_state = JustPassedMeshRoot /\ depth = 1

\* C15 witness: the root was an `attribute` element.
C15_Witness ==
    /\ RootOpened /\ open[1].name = "attribute"
    /\ result.err.tag = "MeshRootNotFound"

\* C15 witness of the other case: the root was a `mesh` element.
C15_WitnessMesh ==
    RootOpened /\ open[1].name = "mesh" /\ parser_state = JustPassedMeshRoot

\* The XML attributes of several elements, one list after the other.
RECURSIVE Flatten(_)
Flatten(lists) == IF lists = <<>> THEN <<>> ELSE Head(lists) \o Flatten(Tail(lists))

\* A `source` element is open as a child of a child of the root.
SourceOpened == Len(open) = 3 /\ open[3].name = "source"

\* C16: a `source` opened at depth 2 outside a `vao` has made the load
\* return SourceTagNotInVaoTag; opened in a `vao`, its XML attributes stand
\* at the end of the accumulated source list and the state is InVaoTag.
C16_SourceOnlyInVao ==
    SourceOpened =>
        IF open[2].name # "vao"
        THEN FailedWithPath("SourceTagNotInVaoTag")
        ELSE /\ pc = "parse"
             /\ parser_state.tag = "InVaoTag"
             /\ parser_state.attributes = open[2].attributes
             /\ parser_state.sources_attributes
                  = Flatten(open[2].sources) \o open[3].attributes

\* C16 witness: a `source` was opened in an `attribute` element whose text
\* had been read.
C16_Witness ==
    /\ SourceOpened /\ open[2].name = "attribute"
    /\ Len(attribs) = 1
    /\ result.err.tag = "SourceTagNotInVaoTag"

\* C16 witness of the other case: the second `source` of a `vao` is open.
C16_WitnessInVao ==
    /\ SourceOpened /\ open[2].name = "vao" /\ Len(open[2].sources) = 1
    /\ Len(parser_state.sources_attributes) = 2

\* The XML attributes the format requires of an element of that name.
Required(name) ==
    CASE name = "attribute" -> {"index", "size", "type"}
      [] name = "indices" -> {"type", "cmd"}
      [] name = "arrays" -> {"cmd", "start", "end"}
      [] name = "vao" -> {"name"}
      [] OTHER -> {}

\* Whether the XML attributes hold one of that name.
Carries(attributes, name) == \E i \in 1..Len(attributes) : attributes[i][1] = name

\* The required XML attributes a child of the root, with the `source`
\* children read in it, lacks.
Lacking(elem) ==
    {a \in Required(elem.name) : ~Carries(elem.attributes, a)}
    \union {a \in {"attrib"} : \E k \in 1..Len(elem.sources) :
                                  ~Carries(elem.sources[k], a)}

\* The load returns NonExistingAttribute with the name of an XML attribute
\* the element lacks.
RejectsLacking(elem) ==
    /\ pc' = "returned"
    /\ result'.kind = "Err"
    /\ result'.err.tag = "NonExistingAttribute"
    /\ result'.err.s \in Lacking(elem)

\* The reader delivers a child of the root named `name`.
ChildOpens(name) ==
    /\ pc = "parse" /\ Len(open) = 1 /\ Len(open') = 2 /\ open'[2].name = name

\* The reader delivers the text of a child of the root named `name`.
ChildText(name) ==
    /\ pc = "parse" /\ Len(open) = 2 /\ open[2].name = name
    /\ ~after_chars /\ after_chars'

\* The reader delivers the EndElement of a child of the root named `name`.
ChildEnds(name) ==
    /\ pc = "parse" /\ pc' # "new"
    /\ Len(open) = 2 /\ open[2].name = name /\ Len(open') = 1

\* C17: an element that lacks a required XML attribute makes the load return
\* NonExistingAttribute with that name, never a panic, never going on: an
\* `arrays` when it is opened, an `attribute` or `indices` when its text is
\* read, a `vao`, for its `name` and the `attrib` of its `source` children,
\* when it is closed.
C17_MissingAttributeRejected ==
    [][/\ (ChildOpens("arrays") /\ n_elems >= 2
            /\ Lacking(open'[2]) # {}) => RejectsLacking(open'[2])
       /\ ((ChildText("attribute") \/ ChildText("indices"))
            /\ Lacking(open[2]) # {}) => RejectsLacking(open[2])
       /\ (ChildEnds("vao") /\ Lacking(open[2]) # {}) => RejectsLacking(open[2])]_vars

\* The same for the elements whose XML attributes the loader looks up by
\* name: `arrays`, `attribute`, `indices`, and the `name` of a `vao`.
C17_LookupsRejectLacking ==
    [][/\ (ChildOpens("arrays") /\ n_elems >= 2
            /\ Lacking(open'[2]) # {}) => RejectsLacking(open'[2])
       /\ ((ChildText("attribute") \/ ChildText("indices"))
            /\ Lacking(open[2]) # {}) => RejectsLacking(open[2])
       /\ (ChildEnds("vao") /\ "name" \in Lacking(open[2]))
            => (RejectsLacking(open[2]) /\ result'.err.s = "name")]_vars

\* C18: every attribute descriptor constructed has a component count in
\* 1..5, and the load never ends in the panic of a division by zero.
C18_SizeOneToFive ==
    /\ \A i \in 1..Len(attribs) : attribs[i].vertex_attribute.components \in 1..5
    /\ ~(result.kind = "Panic" /\ result.err.tag = "divide by zero")

\* The vertex data-type tokens parse_data_type accepts.
TypeTokens ==
    {"float", "half", "int", "uint", "norm-int", "norm-uint", "short", "ushort",
     "norm-short", "norm-ushort", "byte", "ubyte", "norm-byte", "norm-ubyte"}

\* C19: reading the text of an `attribute` element whose `type` is an
\* accepted token ends with an attribute descriptor or with an error value,
\* never with a panic.
C19_AcceptedTypeNeverPanics ==
    [][(/\ ChildText("attribute")
        /\ Carries(open[2].attributes, "type")
        /\ ValueOf(open[2].attributes, "type") \in TypeTokens)
       => result'.kind # "Panic"]_vars

\* The `index` and `size` of an `attribute` element are present and pass the
\* tests Attribute::new makes before it reads the `type`.
IndexAndSizePass(attributes) ==
    /\ Carries(attributes, "index") /\ Carries(attributes, "size")
    /\ ValueOf(attributes, "index") \in {"0", "1", "2", "16"}
    /\ ValueOf(attributes, "size") \in {"0", "1", "2", "3", "4", "5"}

NormalizedTokens ==
    {"norm-int", "norm-uint", "norm-short", "norm-ushort", "norm-byte", "norm-ubyte"}

\* The `type` tokens that name a data type is_floating_point holds of.
FloatingTokens == {"float", "half"}

\* The load returns the error `tag`, carrying the word `s`, at this step.
ReturnsErr(tag, s) ==
    /\ pc' = "returned"
    /\ result' = [kind |-> "Err", err |-> MkErr(tag, 0, s, "")]

\* C21: reading the text of an `attribute` element whose `index`, `size`
\* and `type` pass: with an `integral` that is not a boolean the load
\* returns the boolean parse error; with `integral` true it returns
\* IntegralNormalizedError when the type is normalized and
\* IntegralFloatingError when it is floating point; with `integral` false
\* or absent it returns none of the three.
C21_IntegralChecked ==
    [][(/\ ChildText("attribute")
        /\ IndexAndSizePass(open[2].attributes)
        /\ Carries(open[2].attributes, "type")
        /\ ValueOf(open[2].attributes, "type") \in TypeTokens)
       => LET a == open[2].attributes
              type == ValueOf(a, "type")
          IN IF ~Carries(a, "integral") \/ ValueOf(a, "integral") = "false"
             THEN result'.err.tag \notin {"ParseBoolDataError", "IntegralNormalizedError",
                                          "IntegralFloatingError"}
             ELSE IF ValueOf(a, "integral") # "true"
             THEN ReturnsErr("ParseBoolDataError", ValueOf(a, "integral"))
             ELSE IF type \in NormalizedTokens
             THEN ReturnsErr("IntegralNormalizedError", "")
             ELSE IF type \in FloatingTokens
             THEN ReturnsErr("IntegralFloatingError", "")
             ELSE result'.err.tag \notin {"ParseBoolDataError", "IntegralNormalizedError",
                                          "IntegralFloatingError"}]_vars

\* An `attribute` child of the root with that `type` and that `integral` is
\* open and the load has returned the error `tag`.
IntegralRejected(type, integral, tag) ==
    /\ pc = "returned"
    /\ Len(open) = 2 /\ open[2].name = "attribute"
    /\ ValueOf(open[2].attributes, "type") = type
    /\ ValueOf(open[2].attributes, "integral") = integral
    /\ result.kind = "Err" /\ result.err.tag = tag

\* C21 witness: an integral attribute of a normalized type was refused
\* after an integral attribute of an integer type was read.
C21_Witness ==
    /\ IntegralRejected("norm-ushort", "true", "IntegralNormalizedError")
    /\ Len(attribs) = 1

\* C21 witness of the floating-point case.
C21_WitnessFloating == IntegralRejected("float", "true", "IntegralFloatingError")

\* C21 witness of the `integral` that is not a boolean.
C21_WitnessNotBool == IntegralRejected("float", "yes", "ParseBoolDataError")

\* The reader delivers an `arrays` child of the root, not the first child,
\* that carries a known `cmd` and a numeric `start` and `end`.
ArraysOpens ==
    /\ ChildOpens("arrays") /\ n_elems >= 2
    /\ \A a \in Required("arrays") : Carries(open'[2].attributes, a)
    /\ parse_primitive(ValueOf(open'[2].attributes, "cmd")).kind = "Ok"
    /\ ValueOf(open'[2].attributes, "start") \in DOMAIN NumVal
    /\ ValueOf(open'[2].attributes, "end") \in DOMAIN NumVal

\* C22: an `arrays` element with a negative `start` makes the load return
\* InvalidArrayStart(start); otherwise one with an `end` of zero or less
\* makes it return InvalidArrayCount(end); otherwise an Array command with
\* the parsed primitive, start and end is appended at the start tag itself,
\* and parsing goes on.
C22_ArraysRangeChecked ==
    [][ArraysOpens
       => LET a == open'[2].attributes
              start == NumVal[ValueOf(a, "start")]
              end == NumVal[ValueOf(a, "end")]
          IN IF start < 0
             THEN /\ pc' = "returned"
                  /\ result' = [kind |-> "Err",
                                 err |-> MkErr("InvalidArrayStart", start, "", "")]
             ELSE IF end <= 0
             THEN /\ pc' = "returned"
                  /\ result' = [kind |-> "Err",
                                 err |-> MkErr("InvalidArrayCount", end, "", "")]
             ELSE /\ pc' = "parse"
                  /\ commands' = Append(commands,
                        ArrayCmd(parse_primitive(ValueOf(a, "cmd")).val, start, end))]_vars

\* An `arrays` child of the root with that `start` and `end` is open and was
\* the last element the reader delivered.
ArraysOpened(start, end) ==
    /\ Len(open) = 2 /\ open[2].name = "arrays" /\ ~after_chars
    /\ Carries(open[2].attributes, "start") /\ Carries(open[2].attributes, "end")
    /\ ValueOf(open[2].attributes, "start") = start
    /\ ValueOf(open[2].attributes, "end") = end

\* C22 witness: an `arrays` with start -1 and end 0 was refused for its
\* start.
C22_Witness ==
    /\ ArraysOpened("-1", "0") /\ pc = "returned"
    /\ result.err = MkErr("InvalidArrayStart", -1, "", "")

\* C22 witness of the count: an `arrays` with start 0 and end 0 was refused.
C22_WitnessCount ==
    /\ ArraysOpened("0", "0") /\ pc = "returned"
    /\ result.err = MkErr("InvalidArrayCount", 0, "", "")

\* C22 witness of the accepted case: the command stands in the list while
\* the element is still open and no text was read.
C22_WitnessAppended ==
    /\ ArraysOpened("0", "3") /\ pc = "parse"
    /\ Len(commands) = 2
    /\ commands[2].kind = "Array" /\ commands[2].start = 0 /\ commands[2].end = 3

\* Mesh::new has returned a Mesh none of whose commands is Indexed.
LoadedWithoutIndexed ==
    /\ pc = "live"
    /\ \A k \in 1..Len(mesh_data.commands) : mesh_data.commands[k].kind # "Indexed"

\* The buffer handles generated and not yet deleted.
LiveBuffers == {h \in Created : gl.kind[h] = "buffer" /\ gl.deleted[h] = 0}

\* C23: a Mesh loaded from a document with no Indexed command holds no
\* index buffer, and the only buffer handle generated for it is the
\* attribute buffer.
C23_NoIndexBufferWithoutIndexed ==
    LoadedWithoutIndexed =>
        /\ mesh_data.index_buffer = NULL_HANDLE
        /\ LiveBuffers = {mesh_data.attrib_array_buffer}

\* The part of C23 the code keeps: the index buffer of such a Mesh was never
\* allocated or uploaded to, and is the element binding of no VAO.
C23_IndexBufferUntouched ==
    LoadedWithoutIndexed =>
        /\ gl.store[mesh_data.index_buffer] = NoStore
        /\ \A v \in DOMAIN gl.element_binding :
              gl.element_binding[v] # mesh_data.index_buffer

\* C24: reading the pending text of an `indices` element whose
\* `prim-restart` is present and is not an unsigned integer makes the load
\* return a parse error, and no Indexed command is appended.
C24_BadPrimRestartRejected ==
    [][(/\ ChildText("indices") /\ parser_state.tag = "InIndicesTag"
        /\ \A a \in Required("indices") : Carries(open[2].attributes, a)
        /\ Carries(open[2].attributes, "prim-restart")
        /\ ParseGLuint(ValueOf(open[2].attributes, "prim-restart")).kind # "Ok")
       => /\ pc' = "returned"
          /\ result'.kind = "Err"
          /\ result'.err.tag = "ParseDataError"
          /\ commands' = commands]_vars

\* The part of C24 the code keeps: a `prim-restart` that is an unsigned
\* integer is the primitive-restart value of the command appended.
C24_PrimRestartKept ==
    [][(/\ ChildText("indices") /\ parser_state.tag = "InIndicesTag"
        /\ \A a \in Required("indices") : Carries(open[2].attributes, a)
        /\ Carries(open[2].attributes, "prim-restart")
        /\ ParseGLuint(ValueOf(open[2].attributes, "prim-restart")).kind = "Ok"
        /\ pc' = "parse")
       => /\ Len(commands') = Len(commands) + 1
          /\ commands'[Len(commands')].primitive_restart
               = Some(NumVal[ValueOf(open[2].attributes, "prim-restart")])]_vars

\* C25: in a Mesh that Mesh::new returned, no two entries of the parsed
\* named-VAO list have the same name, and the name map holds as many VAOs as
\* the document has `vao` elements (one list entry each).
C25_VaoNamesUnique ==
    pc = "live" =>
        /\ \A i, j \in 1..Len(named_vao_list) :
              named_vao_list[i].name = named_vao_list[j].name => i = j
        /\ Cardinality(mesh_data.named_vaos) = Len(named_vao_list)

\* The command list grows at this step by one command, put at its end.
AppendsCommand ==
    /\ Len(commands') = Len(commands) + 1
    /\ SubSeq(commands', 1, Len(commands)) = commands

\* parse_xml goes on or returns the lists to Mesh::new: it has not failed.
ParseGoesOn == pc = "parse" /\ pc' \in {"parse", "new"}

\* The part of C26 the code keeps: while parse_xml runs the command list
\* only grows at its end, so the order of the commands is the order in which
\* the reader delivered their elements; an `arrays` child of the root
\* appends an Array command when it opens; the pending text of an `indices`
\* child appends an Indexed command of its `type`; nothing else appends.
C26_CommandsInDocumentOrder ==
    [][ParseGoesOn =>
         /\ commands' # commands => AppendsCommand
         /\ (ChildOpens("arrays") /\ n_elems >= 2)
               => AppendsCommand /\ commands'[Len(commands')].kind = "Array"
         /\ (ChildText("indices") /\ parser_state.tag = "InIndicesTag")
               => /\ AppendsCommand
                  /\ commands'[Len(commands')].kind = "Indexed"
                  /\ parser_state'.tag = "Initial"
         /\ AppendsCommand
               => \/ ChildOpens("arrays")
                  \/ parser_state.tag = "InIndicesTag" /\ after_chars' /\ ~after_chars]_vars

\* C26: every `indices` element yields its command: in a document the
\* reader reads without an error, the pending XML attributes of an `indices`
\* element are given up only by appending its Indexed command, so that with
\* the Array command each `arrays` appends the list has one command for
\* every such element, in document order.
C26_OneCommandPerElement ==
    [][(/\ ParseGoesOn /\ ~xml_error'
        /\ parser_state.tag = "InIndicesTag"
        /\ parser_state' # parser_state)
       => /\ AppendsCommand
          /\ commands'[Len(commands')].kind = "Indexed"]_vars

\* The element whose XML attributes the parser state holds is open, is a
\* child of the root and is the innermost open element.
PendingElementInnermost(name) ==
    /\ Len(open) = 2
    /\ open[2].name = name
    /\ open[2].attributes = parser_state.attributes

\* C27: while parse_xml runs, a state InAttributeTag or InIndicesTag means
\* the `attribute` or `indices` element it holds is the innermost open
\* element, and text makes an attribute descriptor or an Indexed command
\* only as the text of that element.
C27_TextOnlyOfPendingElement ==
    [][pc = "parse" =>
         /\ parser_state.tag = "InAttributeTag" => PendingElementInnermost("attribute")
         /\ parser_state.tag = "InIndicesTag" => PendingElementInnermost("indices")
         /\ attribs' # attribs => PendingElementInnermost("attribute")
         /\ commands' # commands
               => PendingElementInnermost("indices") \/ ChildOpens("arrays")]_vars

\* C28: in a Mesh that Mesh::new returned, the number of values of every
\* attribute is a multiple of its component count, so that num_elements
\* times the component count is the length of the data.
C28_WholeVertices ==
    pc = "live" =>
        \A i \in 1..Len(attribs) :
            num_elements(attribs[i]) * attribs[i].vertex_attribute.components
              = Len(attribs[i].data)

Restores == stack_op'.op \in {"pop", "PushStack::drop"}

\* C30: a pop(), or the drop of a PushStack guard, that closes a scope gives
\* back the matrix that was current when the scope was opened and the stack
\* depth of that moment, whatever transforms and nested scopes ran inside;
\* a guard's drop restores as the pop() of a push() does; a pop() with no
\* scope open, the stack empty, changes neither the matrix nor the depth.
C30_BalancedSaveRestore ==
    [][Restores =>
         IF scopes # <<>>
         THEN /\ top(matrix_stack') = scopes[Len(scopes)].matrix
              /\ Len(matrix_stack'.stack) = scopes[Len(scopes)].depth
         ELSE /\ matrix_stack.stack = <<>>
              /\ matrix_stack' = matrix_stack]_vars

\* C30 witness: inside an outer scope, a pop() has closed a nested scope and
\* restored a matrix other than the one current before it.
C30_Witness ==
    /\ stack_op.op = "pop"
    /\ Len(scopes) = 1 /\ Len(matrix_stack.stack) = 1
    /\ top(matrix_stack) # stack_op.before
    /\ top(matrix_stack) # IDENTITY
    /\ top(matrix_stack) # matrix_stack.stack[1]

\* C30 witness of the guard: the drop of a PushStack has restored a matrix
\* other than the one current before it.
C30_WitnessGuard ==
    /\ stack_op.op = "PushStack::drop"
    /\ scopes = <<>> /\ matrix_stack.stack = <<>>
    /\ top(matrix_stack) # stack_op.before

\* C30 witness of the empty stack: pop() ran with nothing saved.
C30_WitnessEmpty ==
    /\ stack_op.op = "pop" /\ scopes = <<>>
    /\ top(matrix_stack) = stack_op.before
    /\ top(matrix_stack) # IDENTITY

====
